---- MODULE Spec2Model ----
(***************************************************************************)
(* Model of the credential provisioning engine of setup-linked-repo:      *)
(*   - GitCommandManager (git-command-manager.ts): the command runner     *)
(*     with its environment overlay gitEnv,                               *)
(*   - GitAuthHelper (git-auth-helper.ts): placeholder-then-replace       *)
(*     configuration of the credential header,                            *)
(*   - getSource / cleanup (git-source-provider.ts): the sessions.        *)
(* Strings are TLA+ strings; a config file is the sequence of its          *)
(* "key=value" lines, rendered to text where the code reads the file.     *)
(* Every awaited call of the code (a git subprocess, a file operation,    *)
(* the grant request) is one step of the single sequential flow.          *)
(***************************************************************************)
EXTENDS Integers, Sequences, FiniteSets, TLC

(***************************************************************************)
(* Bounds of the model                                                     *)
(***************************************************************************)
\* number of top-level calls a behaviour makes
MaxOps == 4
\* number of injected environment failures (a subprocess or file write that fails)
MaxFaults == 1
\* number of temporary home directories uuid() can name
MaxTemp == 2

(***************************************************************************)
(* Strings                                                                 *)
(***************************************************************************)
\* String.prototype.substring on 1-based inclusive positions, clipped to s
Slice(s, m, n) ==
    IF m > n \/ m > Len(s) \/ n < 1 THEN ""
    ELSE SubSeq(s, IF m < 1 THEN 1 ELSE m, IF n > Len(s) THEN Len(s) ELSE n)

\* the character of s at position i (1-based), "" outside s
CharAt(s, i) == Slice(s, i, i)

\* String.prototype.startsWith at an offset: does pat occur in s at position i
OccursAt(s, pat, i) ==
    /\ i >= 1
    /\ i + Len(pat) - 1 <= Len(s)
    /\ Slice(s, i, i + Len(pat) - 1) = pat

Min(S) == CHOOSE m \in S : \A n \in S : m <= n
Max(S) == CHOOSE m \in S : \A n \in S : m >= n

\* the first position >= i where pat occurs in s, 0 when there is none
ScanForward(s, pat, i) ==
    LET places == {j \in i..(Len(s) - Len(pat) + 1) : OccursAt(s, pat, j)}
    IN IF places = {} THEN 0 ELSE Min(places)

\* the last position <= i where pat occurs in s, 0 when there is none
ScanBackward(s, pat, i) ==
    LET places == {j \in 1..i : OccursAt(s, pat, j)}
    IN IF places = {} THEN 0 ELSE Max(places)

\* String.prototype.indexOf, 0-based, -1 when absent
IndexOf(s, pat) == ScanForward(s, pat, 1) - 1

\* String.prototype.lastIndexOf, 0-based, -1 when absent
LastIndexOf(s, pat) == ScanBackward(s, pat, Len(s) - Len(pat) + 1) - 1

\* String.prototype.includes
Includes(s, pat) == IndexOf(s, pat) >= 0

\* String.prototype.replace(pat, by) with a string pattern: the first
\* occurrence only (by holds no '$' replacement pattern, see Base64Alphabet)
ReplaceFirst(s, pat, by) ==
    LET at == IndexOf(s, pat) IN
    IF at < 0 THEN s
    ELSE Slice(s, 1, at) \o by \o Slice(s, at + Len(pat) + 1, Len(s))

\* String.prototype.startsWith
StartsWith(s, pat) == OccursAt(s, pat, 1)

\* String.prototype.endsWith
EndsWith(s, pat) == Len(s) >= Len(pat) /\ OccursAt(s, pat, Len(s) - Len(pat) + 1)

\* String.prototype.substr(start, length), start 0-based and not negative:
\* a length that is not positive gives ''
Substr(s, start, length) ==
    IF length <= 0 THEN "" ELSE Slice(s, start + 1, start + length)

RECURSIVE Split(_, _)
\* String.prototype.split(separator): at least one piece, '' included
Split(s, separator) ==
    LET at == IndexOf(s, separator) IN
    IF at < 0 THEN <<s>>
    ELSE <<Slice(s, 1, at)>> \o Split(Slice(s, at + Len(separator) + 1, Len(s)), separator)

(***************************************************************************)
(* Buffer.from(text, 'utf8').toString('base64')                            *)
(***************************************************************************)
\* the printable ASCII characters of code 32 (space) to 95 (_)
AsciiLow == " !\"#$%&'()*+,-./0123456789:;<=>?@ABCDEFGHIJKLMNOPQRSTUVWXYZ[\\]^_"
\* the printable ASCII characters of code 97 (a) to 126 (~)
AsciiHigh == "abcdefghijklmnopqrstuvwxyz{|}~"

\* the UTF-8 byte of an ASCII character
Ord(c) ==
    IF \E i \in 1..Len(AsciiLow) : CharAt(AsciiLow, i) = c
    THEN 31 + (CHOOSE i \in 1..Len(AsciiLow) : CharAt(AsciiLow, i) = c)
    ELSE 96 + (CHOOSE i \in 1..Len(AsciiHigh) : CharAt(AsciiHigh, i) = c)

\* Buffer.from(s, 'utf8'): the bytes of s
Utf8(s) == [i \in 1..Len(s) |-> Ord(CharAt(s, i))]

Base64Alphabet == "ABCDEFGHIJKLMNOPQRSTUVWXYZabcdefghijklmnopqrstuvwxyz0123456789+/"

\* the base64 digit of a 6-bit value
B64Digit(v) == CharAt(Base64Alphabet, v + 1)

RECURSIVE Base64(_)
\* Buffer.toString('base64') of a byte sequence, with '=' padding
Base64(bytes) ==
    IF Len(bytes) = 0 THEN ""
    ELSE IF Len(bytes) = 1 THEN
        B64Digit(bytes[1] \div 4) \o B64Digit((bytes[1] % 4) * 16) \o "=="
    ELSE IF Len(bytes) = 2 THEN
        B64Digit(bytes[1] \div 4)
        \o B64Digit((bytes[1] % 4) * 16 + bytes[2] \div 16)
        \o B64Digit((bytes[2] % 16) * 4) \o "="
    ELSE
        B64Digit(bytes[1] \div 4)
        \o B64Digit((bytes[1] % 4) * 16 + bytes[2] \div 16)
        \o B64Digit((bytes[2] % 16) * 4 + bytes[3] \div 64)
        \o B64Digit(bytes[3] % 64)
        \o Base64(SubSeq(bytes, 4, Len(bytes)))

(***************************************************************************)
(* Config files.  On disk a config file is text, one "key=value" line per *)
(* configured value.  The model keeps every file as the sequence of        *)
(* entries its text parses to: git works on the entries, the replace step *)
(* of the auth helper on the text.                                         *)
(***************************************************************************)
RECURSIVE Lines(_)
\* the lines of a text, each without its terminating "\n"
Lines(text) ==
    IF text = "" THEN <<>>
    ELSE LET nl == IndexOf(text, "\n") IN
         IF nl < 0 THEN <<text>>
         ELSE <<Slice(text, 1, nl)>> \o Lines(Slice(text, nl + 2, Len(text)))

\* the entry of a config line: the key before its first "=", the value after it
ParseLine(line) ==
    LET eq == IndexOf(line, "=") IN
    IF eq < 0 THEN [key |-> line, value |-> ""]
    ELSE [key |-> Slice(line, 1, eq), value |-> Slice(line, eq + 2, Len(line))]

\* the entries of a config text (what fs.promises.writeFile leaves on disk)
ParseConfig(text) ==
    LET ls == Lines(text) IN [i \in 1..Len(ls) |-> ParseLine(ls[i])]

RECURSIVE RenderConfig(_)
\* the text of a config file (what fs.promises.readFile returns)
RenderConfig(entries) ==
    IF entries = <<>> THEN ""
    ELSE Head(entries).key \o "=" \o Head(entries).value \o "\n"
         \o RenderConfig(Tail(entries))

\* the values a config file holds for a key, in file order
ConfigValues(entries, key) ==
    LET F[i \in 0..Len(entries)] ==
            IF i = 0 THEN <<>>
            ELSE IF entries[i].key = key THEN Append(F[i - 1], entries[i].value)
            ELSE F[i - 1]
    IN F[Len(entries)]

\* does a config file hold a value for the key
ConfigHasKey(entries, key) == \E i \in 1..Len(entries) : entries[i].key = key

\* git config <key> <value>: the file after setting the single value of a key
\* (the caller has checked that the key holds at most one value)
ConfigSetEntries(entries, key, value) ==
    IF ConfigHasKey(entries, key)
    THEN [i \in 1..Len(entries) |->
            IF entries[i].key = key THEN [key |-> key, value |-> value] ELSE entries[i]]
    ELSE Append(entries, [key |-> key, value |-> value])

\* git config --unset-all <key>: the file without any entry of the key
ConfigUnsetEntries(entries, key) ==
    LET F[i \in 0..Len(entries)] ==
            IF i = 0 THEN <<>>
            ELSE IF entries[i].key = key THEN F[i - 1]
            ELSE Append(F[i - 1], entries[i])
    IN F[Len(entries)]

(***************************************************************************)
(* The world around the program                                            *)
(***************************************************************************)
\* the user profile directory (process.env.HOME, os.homedir())
RealHome == "/home/runner"
\* the value of RUNNER_TEMP when the runner defines it
RunnerTempDir == "/runner/_temp"
\* the working directory the subprocess runs in; holds a repository
WorkDir == "/work"
\* what io.which('git') finds when git is installed
GitBinary == "/usr/bin/git"

\* path.join of a directory and a name
PathJoin(dir, name) == dir \o "/" \o name

\* the directory of a path: the text before its last "/"
DirName(path) == Slice(path, 1, LastIndexOf(path, "/"))

\* is path inside the directory (or the directory itself)
IsUnder(path, dir) == path = dir \/ OccursAt(path, dir \o "/", 1)

\* a JavaScript value that is a string or undefined
Undefined == [type |-> "undefined", s |-> ""]
Str(text) == [type |-> "string", s |-> text]

\* `${value}` in a template literal
Template(value) == IF value.type = "undefined" THEN "undefined" ELSE value.s

\* the truthiness of a string-or-undefined value
Truthy(value) == value.type = "string" /\ value.s # ""

\* the delegated tokens the grant endpoint can issue
Tokens == {"ghs_A", "ghs_Bc"}

\* the values GITHUB_SERVER_URL can have when it is set
ServerUrls == {"https://ghe.example.com:8443/api"}

\* the process environments: the runner's, with RUNNER_TEMP and the default
\* server, and one without RUNNER_TEMP that names another server
ProcessEnvs ==
    {[HOME |-> RealHome, RUNNER_TEMP |-> RunnerTempDir]} \cup
    {[HOME |-> RealHome, GITHUB_SERVER_URL |-> u] : u \in ServerUrls}

\* process.env[name] || fallback
EnvOr(env, name, fallback) ==
    IF name \in DOMAIN env /\ env[name] # "" THEN env[name] ELSE fallback

\* a merge in which process.env overrides gitEnv
MergedEnv_ProcessWins(penv, overlay) ==
    [k \in DOMAIN penv \cup DOMAIN overlay |->
        IF k \in DOMAIN penv THEN penv[k] ELSE overlay[k]]

\* execGit's env: process.env overridden by gitEnv
MergedEnv(penv, overlay) ==
    [k \in DOMAIN penv \cup DOMAIN overlay |->
        IF k \in DOMAIN overlay THEN overlay[k] ELSE penv[k]]

\* a removal that leaves the entry in the overlay
WithoutKey_Keep(overlay, name) == overlay

\* delete gitEnv[name]
WithoutKey(overlay, name) == [k \in DOMAIN overlay \ {name} |-> overlay[k]]

\* gitEnv[name] = value
WithKey(overlay, name, value) ==
    [k \in DOMAIN overlay \cup {name} |-> IF k = name THEN value ELSE overlay[k]]

(***************************************************************************)
(* url-helper.ts                                                           *)
(***************************************************************************)
\* getServerUrl: the URL text the environment selects
GetServerUrl(penv) ==
    EnvOr(penv, "GITHUB_SERVER_URL", EnvOr(penv, "GITHUB_URL", "https://github.com"))

\* URL.host: the text between "://" and the next "/"
UrlHost(url) ==
    LET rest == Slice(url, IndexOf(url, "://") + 4, Len(url))
    IN IF IndexOf(rest, "/") < 0 THEN rest ELSE Slice(rest, 1, IndexOf(rest, "/"))

\* URL.origin: SCHEME://HOSTNAME[:PORT]
UrlOrigin(url) == Slice(url, 1, IndexOf(url, "://") + 3) \o UrlHost(url)

\* URL.hostname: the host without its port
UrlHostname(url) ==
    IF IndexOf(UrlHost(url), ":") < 0 THEN UrlHost(url)
    ELSE Slice(UrlHost(url), 1, IndexOf(UrlHost(url), ":"))

(***************************************************************************)
(* git-version.ts (GitVersion) and the version probe                       *)
(***************************************************************************)
Digits == "0123456789"

IsDigit(c) == c # "" /\ Includes(Digits, c)

IsSpace(c) == c \in {" ", "\n", "\t", "\r"}

RECURSIVE Trim(_)
\* String.prototype.trim
Trim(text) ==
    IF text = "" THEN ""
    ELSE IF IsSpace(CharAt(text, 1)) THEN Trim(Slice(text, 2, Len(text)))
    ELSE IF IsSpace(CharAt(text, Len(text))) THEN Trim(Slice(text, 1, Len(text) - 1))
    ELSE text

\* the last position of the run of digits that starts at position i
DigitRunEnd(text, i) ==
    Max({j \in i..Len(text) : \A k \in i..j : IsDigit(CharAt(text, k))})

\* the end of the match of \d+\.\d+(\.\d+)? that starts at position i, 0 if none
VersionMatchEnd(text, i) ==
    IF ~IsDigit(CharAt(text, i)) THEN 0
    ELSE LET j == DigitRunEnd(text, i) IN
         IF ~(CharAt(text, j + 1) = "." /\ IsDigit(CharAt(text, j + 2))) THEN 0
         ELSE LET k == DigitRunEnd(text, j + 2) IN
              IF CharAt(text, k + 1) = "." /\ IsDigit(CharAt(text, k + 2))
              THEN DigitRunEnd(text, k + 2)
              ELSE k

\* stdout.match(/\d+\.\d+(\.\d+)?/): the first match, "" when there is none
VersionMatch(text) ==
    LET starts == {i \in 1..Len(text) : VersionMatchEnd(text, i) > 0} IN
    IF starts = {} THEN ""
    ELSE Slice(text, Min(starts), VersionMatchEnd(text, Min(starts)))

RECURSIVE ParseNumber(_)
\* Number(digits) of a string of decimal digits
ParseNumber(digits) ==
    IF digits = "" THEN 0
    ELSE 10 * ParseNumber(Slice(digits, 1, Len(digits) - 1))
         + IndexOf(Digits, CharAt(digits, Len(digits)))

\* new GitVersion(): the invalid version
InvalidVersion == [valid |-> FALSE, major |-> 0, minor |-> 0, patch |-> -1, text |-> ""]

\* new GitVersion(text) for a text of the form major.minor[.patch]
GitVersion(text) ==
    IF text = "" THEN InvalidVersion
    ELSE LET dot1 == IndexOf(text, ".")
             rest == Slice(text, dot1 + 2, Len(text))
             dot2 == IndexOf(rest, ".")
         IN [valid |-> TRUE,
             major |-> ParseNumber(Slice(text, 1, dot1)),
             minor |-> ParseNumber(IF dot2 < 0 THEN rest ELSE Slice(rest, 1, dot2)),
             patch |-> IF dot2 < 0 THEN -1
                       ELSE ParseNumber(Slice(rest, dot2 + 2, Len(rest))),
             text |-> text]

\* GitVersion.checkMinimum: numeric comparison of major, then minor, then patch
CheckMinimum(version, minimum) ==
    /\ version.valid
    /\ \/ version.major > minimum.major
       \/ /\ version.major = minimum.major
          /\ \/ version.minor > minimum.minor
             \/ /\ version.minor = minimum.minor
                /\ (version.patch < 0 \/ minimum.patch < 0
                    \/ version.patch >= minimum.patch)

\* MinimumGitVersion
MinimumGitVersion == GitVersion("2.18")

\* the version the probe's stdout yields (initializeCommandManager)
ProbedVersion(stdout) ==
    IF Includes(Trim(stdout), "\n") THEN InvalidVersion
    ELSE GitVersion(VersionMatch(Trim(stdout)))

\* what `git version` can print
VersionOutputs ==
    {"git version 2.9.3\n", "git version 2.18.0\n", "git: unknown build\n",
     "warning: x\ngit version 2.30.1\n"}

\* the probed version of every output, computed once
ProbedVersions == [stdout \in VersionOutputs |-> ProbedVersion(stdout)]

(***************************************************************************)
(* regexp-helper.ts                                                        *)
(***************************************************************************)
AlphaNumeric == "ABCDEFGHIJKLMNOPQRSTUVWXYZabcdefghijklmnopqrstuvwxyz0123456789_"

\* the word characters [a-zA-Z0-9_]
WordChars == {CharAt(AlphaNumeric, i) : i \in 1..Len(AlphaNumeric)}

RECURSIVE RegexpEscape(_)
\* regexpHelper.escape: a backslash before every character that is not a word character
RegexpEscape(text) ==
    IF text = "" THEN ""
    ELSE (IF CharAt(text, 1) \in WordChars THEN "" ELSE "\\")
         \o CharAt(text, 1) \o RegexpEscape(Slice(text, 2, Len(text)))

RECURSIVE RegexpLiteral(_)
\* the literal text an escaped pattern matches
RegexpLiteral(pattern) ==
    IF pattern = "" THEN ""
    ELSE IF CharAt(pattern, 1) = "\\"
    THEN CharAt(pattern, 2) \o RegexpLiteral(Slice(pattern, 3, Len(pattern)))
    ELSE CharAt(pattern, 1) \o RegexpLiteral(Slice(pattern, 2, Len(pattern)))

(***************************************************************************)
(* git-auth-helper.ts: the constructor                                     *)
(***************************************************************************)
\* basicCredential: base64 of x-access-token:<linkedToken>
BasicCredential(linkedToken) ==
    Base64(Utf8("x-access-token:" \o Template(linkedToken)))

\* tokenPlaceholderConfigValue
TokenPlaceholderConfigValue == "AUTHORIZATION: basic ***"

\* tokenConfigValue
TokenConfigValue(linkedToken) == "AUTHORIZATION: basic " \o BasicCredential(linkedToken)

\* tokenConfigKey
TokenConfigKey(penv) == "http." \o UrlOrigin(GetServerUrl(penv)) \o "/.extraheader"

\* insteadOfKey
InsteadOfKey(penv) == "url." \o UrlOrigin(GetServerUrl(penv)) \o "/.insteadOf"

\* insteadOfValue
InsteadOfValue(penv) == "git@" \o UrlHostname(GetServerUrl(penv)) \o ":"

\* a constructor whose credential key depends on the token as well
NewAuthHelper_KeyPerToken(penv, linkedToken) ==
    [made |-> TRUE,
     basicCredential |-> BasicCredential(linkedToken),
     tokenConfigKey |-> "http." \o UrlOrigin(GetServerUrl(penv)) \o "/"
                        \o Template(linkedToken) \o ".extraheader",
     tokenConfigValue |-> TokenConfigValue(linkedToken),
     tokenPlaceholderConfigValue |-> TokenPlaceholderConfigValue,
     insteadOfKey |-> InsteadOfKey(penv),
     insteadOfValue |-> InsteadOfValue(penv)]

\* the fields of a GitAuthHelper built from settings.linkedToken
NewAuthHelper(penv, linkedToken) ==
    [made |-> TRUE,
     basicCredential |-> BasicCredential(linkedToken),
     tokenConfigKey |-> TokenConfigKey(penv),
     tokenConfigValue |-> TokenConfigValue(linkedToken),
     tokenPlaceholderConfigValue |-> TokenPlaceholderConfigValue,
     insteadOfKey |-> InsteadOfKey(penv),
     insteadOfValue |-> InsteadOfValue(penv)]

\* no GitAuthHelper has been built
NoAuthHelper ==
    [made |-> FALSE, basicCredential |-> "", tokenConfigKey |-> "", tokenConfigValue |-> "",
     tokenPlaceholderConfigValue |-> "", insteadOfKey |-> "", insteadOfValue |-> ""]

\* the values settings.linkedToken can have
LinkedTokens == {Undefined} \cup {Str(t) : t \in Tokens \cup {""}}

\* the auth helper of every environment and token, computed once
AuthHelpers ==
    [penv \in ProcessEnvs |-> [t \in LinkedTokens |-> NewAuthHelper(penv, t)]]

\* the credential keys of the environments
TokenConfigKeys == {TokenConfigKey(penv) : penv \in ProcessEnvs}

\* regexpHelper.escape of every credential key, computed once
EscapedKeys == [key \in TokenConfigKeys |-> RegexpEscape(key)]

\* regexpHelper.escape(configKey)
EscapedKey(configKey) ==
    IF configKey \in TokenConfigKeys THEN EscapedKeys[configKey]
    ELSE RegexpEscape(configKey)

\* the literal of every escaped credential key, computed once
KeyLiterals ==
    [pattern \in {EscapedKeys[key] : key \in TokenConfigKeys} |-> RegexpLiteral(pattern)]

\* the literal text a --get-regexp pattern matches
PatternLiteral(pattern) ==
    IF pattern \in DOMAIN KeyLiterals THEN KeyLiterals[pattern]
    ELSE RegexpLiteral(pattern)

(***************************************************************************)
(* The git subprocess: what `git config` does to the config files          *)
(***************************************************************************)
\* the config file a `git config <scope>` subprocess works on under env
GitConfigFile(scope, env) ==
    IF scope = "--global"
    THEN PathJoin(EnvOr(env, "HOME", RealHome), ".gitconfig")
    ELSE PathJoin(PathJoin(WorkDir, ".git"), "config")

\* the kind of a git argument vector
GitCommand(args) ==
    IF args[1] = "version" THEN "version"
    ELSE IF args[1] # "config" THEN "other"
    ELSE IF args[3] = "--unset-all" THEN "unset"
    ELSE IF args[3] = "--name-only" THEN "exists"
    ELSE "set"

\* the exit code and the files after a git subprocess; failed is an
\* environment failure (the config file is locked or not writable)
GitRun(args, env, files, directories, failed) ==
    LET path == GitConfigFile(args[2], env)
        present == path \in DOMAIN files
        entries == IF present THEN files[path] ELSE <<>>
        Write(es) == [p \in DOMAIN files \cup {path} |-> IF p = path THEN es ELSE files[p]]
    IN
    IF failed THEN [exitCode |-> 128, files |-> files]
    ELSE IF GitCommand(args) = "set" THEN
        IF DirName(path) \notin directories
        THEN [exitCode |-> 255, files |-> files]
        ELSE IF Len(ConfigValues(entries, args[3])) > 1
        THEN [exitCode |-> 5, files |-> files]
        ELSE [exitCode |-> 0, files |-> Write(ConfigSetEntries(entries, args[3], args[4]))]
    ELSE IF GitCommand(args) = "unset" THEN
        IF ~ConfigHasKey(entries, args[4])
        THEN [exitCode |-> 5, files |-> files]
        ELSE [exitCode |-> 0, files |-> Write(ConfigUnsetEntries(entries, args[4]))]
    ELSE IF GitCommand(args) = "exists" THEN
        IF \E n \in 1..Len(entries) : Includes(entries[n].key, PatternLiteral(args[5]))
        THEN [exitCode |-> 0, files |-> files]
        ELSE [exitCode |-> 1, files |-> files]
    ELSE [exitCode |-> 0, files |-> files]

(***************************************************************************)
(* git-command-manager.ts: argument vectors                                *)
(***************************************************************************)
ScopeFlag(globalConfig) == IF globalConfig THEN "--global" ELSE "--local"

\* GitCommandManager.config
ConfigArgs(configKey, configValue, globalConfig) ==
    <<"config", ScopeFlag(globalConfig), configKey, configValue>>

\* GitCommandManager.configExists
ConfigExistsArgs(configKey, globalConfig) ==
    <<"config", ScopeFlag(globalConfig), "--name-only", "--get-regexp",
      EscapedKey(configKey)>>
\* GitCommandManager.tryConfigUnset
ConfigUnsetArgs(configKey, globalConfig) ==
    <<"config", ScopeFlag(globalConfig), "--unset-all", configKey>>

\* a configExists that reads every exit code as 'the key exists'
ConfigExists_AnyExitCode(gitOutput) == TRUE

\* GitCommandManager.configExists: return output.exitCode === 0
ConfigExists(gitOutput) == gitOutput.exitCode = 0

\* the gitEnv a new GitCommandManager starts with
InitialGitEnv == [GIT_TERMINAL_PROMPT |-> "0", GCM_INTERACTIVE |-> "Never"]

(***************************************************************************)
(* git-auth-helper.ts: replaceTokenPlaceholder on the file content         *)
(***************************************************************************)
\* a uniqueness check that only looks for a first placeholder
PlaceholderUnique_AnyOccurrence(content, placeholder) ==
    ~(IndexOf(content, placeholder) < 0)

\* does the replace step accept the content: exactly one placeholder
PlaceholderUnique(content, placeholder) ==
    LET placeholderIndex == IndexOf(content, placeholder) IN
    ~(\/ placeholderIndex < 0
      \/ placeholderIndex # LastIndexOf(content, placeholder))

\* the content the replace step writes back
ReplacedContent(content, placeholder, value) == ReplaceFirst(content, placeholder, value)

(***************************************************************************)
(* The grant endpoint                                                      *)
(***************************************************************************)
\* the response bodies: no body, text that is not JSON, the JSON null, and
\* JSON objects without a token field, with an empty or a non-empty token
GrantBodies ==
    {[kind |-> k, token |-> Undefined] : k \in {"empty", "malformed", "null", "object"}}
    \cup {[kind |-> "object", token |-> Str(t)] : t \in Tokens \cup {""}}

\* ITypedResponse.result of http-client's postJson: the parsed body, null
\* when there is no body or it is not JSON
HttpResultIsObject(body) == body.kind = "object"

\* does JSON.parse(body).token of the got variant throw
GotParseThrows(body) == body.kind # "object"

(***************************************************************************)
(* State                                                                   *)
(***************************************************************************)
VARIABLES
    processEnv,        \* process.env
    fs,                \* the files: path -> content
    dirs,              \* the directories that exist
    gitPath,           \* GitCommandManager.gitPath
    gitEnv,            \* GitCommandManager.gitEnv, the environment overlay
    gitReady,          \* a command manager has been created
    gitInitError,      \* the error initializeCommandManager threw, "" if none
    settings,          \* settings.linkedToken
    helper,            \* the fields of the GitAuthHelper
    temporaryHomePath, \* GitAuthHelper.temporaryHomePath
    configPath,        \* the configPath argument of configureToken
    globalConfig,      \* the globalConfig argument of configureToken
    op,                \* the top-level call that is running
    pc,                \* the awaited step the flow is at
    pendingErr,        \* err of configureGlobalAuth's catch block
    outcome,           \* how the last call ended
    prevOutcome,       \* how the call before it ended
    lastExec,          \* the last subprocess: argument vector, env, exit code
    grantRequests,     \* number of requests sent to the grant endpoint
    secrets,           \* the values passed to core.setSecret
    ops,               \* number of top-level calls made
    faults,            \* number of injected failures
    tempCount,         \* number of uuids drawn
    placeholderFile,   \* the file the subprocess of this call wrote the placeholder to
    patchedFile,       \* the file the replace step of this call wrote
    homeBefore,        \* <real home>/.gitconfig when configureGlobalAuth was called
    issuedTokens,      \* the delegated tokens handed to this process
    warned,            \* core.warning was called by this call
    createdHomes,      \* the temporary homes this GitAuthHelper has created
    output,            \* output of getDefaultBranch: the GitOutput of ls-remote
    attempt            \* the attempt retryHelper.execute is at

vars == <<processEnv, fs, dirs, gitPath, gitEnv, gitReady, gitInitError, settings,
          helper, temporaryHomePath, configPath, globalConfig, op, pc,
          pendingErr, outcome, prevOutcome, lastExec, grantRequests, secrets, ops, faults,
          tempCount, placeholderFile, patchedFile, homeBefore, issuedTokens, warned,
          createdHomes, output, attempt>>

\* <real home>/.gitconfig as the program computes it
HomeConfigPath == PathJoin(EnvOr(processEnv, "HOME", RealHome), ".gitconfig")

\* <work dir>/.git/config
LocalConfigPath == PathJoin(PathJoin(WorkDir, ".git"), "config")

\* the files restricted to one path
FileAt(files, path) == [p \in DOMAIN files \cap {path} |-> files[p]]

\* the i-th value of uuid()
Uuid(i) == "uuid-" \o ToString(i)

NoOutcome ==
    [op |-> "none", status |-> "ok", error |-> "", placeholderFile |-> "",
     patchedFile |-> "", warned |-> FALSE, value |-> ""]

NoExec == [args |-> <<>>, env |-> InitialGitEnv, exitCode |-> 0, path |-> ""]

\* let output: GitOutput | undefined, before the first assignment
NoOutput == [set |-> FALSE, stdout |-> "", exitCode |-> 0]

\* the content of <work dir>/.git/config
LocalConfigText == "core.bare=false\n"

\* the contents <real home>/.gitconfig can start with, for the credential key
HomeConfigs(key) ==
    {"user.name=ci\n",
     key \o "=AUTHORIZATION: basic b2xkMQ==\n" \o key \o "=AUTHORIZATION: basic b2xkMg==\n",
     key \o "=" \o TokenPlaceholderConfigValue \o "\n",
     "http.https://other.example/.extraheader=" \o TokenPlaceholderConfigValue \o "\n"}

Init ==
    /\ processEnv \in ProcessEnvs
    /\ \/ fs = [p \in {LocalConfigPath} |-> ParseConfig(LocalConfigText)]
       \/ \E c \in HomeConfigs(TokenConfigKey(processEnv)) :
            fs = [p \in {LocalConfigPath, HomeConfigPath} |->
                    ParseConfig(IF p = HomeConfigPath THEN c ELSE LocalConfigText)]
    /\ dirs = {RealHome, PathJoin(WorkDir, ".git")}
    /\ gitPath = ""
    /\ gitEnv = InitialGitEnv
    /\ gitReady = FALSE
    /\ gitInitError = ""
    /\ settings = Undefined
    /\ helper = NoAuthHelper
    /\ temporaryHomePath = ""
    /\ configPath = ""
    /\ globalConfig = FALSE
    /\ op = "none"
    /\ pc = "idle"
    /\ pendingErr = ""
    /\ outcome = NoOutcome
    /\ prevOutcome = NoOutcome
    /\ lastExec = NoExec
    /\ grantRequests = 0
    /\ secrets = {}
    /\ ops = 0
    /\ faults = 0
    /\ tempCount = 0
    /\ placeholderFile = ""
    /\ patchedFile = ""
    /\ homeBefore = FileAt(fs, HomeConfigPath)
    /\ issuedTokens = {}
    /\ warned = FALSE
    /\ createdHomes = {}
    /\ output = NoOutput
    /\ attempt = 0

(***************************************************************************)
(* Control: how a call starts, returns and throws                          *)
(***************************************************************************)
\* the steps inside the try block of configureGlobalAuth
TryBlock ==
    {"configureToken.config", "configureToken.replace",
     "configureGlobalAuth.unsetInsteadOf", "configureGlobalAuth.setInsteadOf"}

\* a caller invokes an exported operation
StartCall(name, first) ==
    /\ pc = "idle"
    /\ ops < MaxOps
    /\ op' = name
    /\ pc' = first
    /\ ops' = ops + 1
    /\ pendingErr' = ""
    /\ placeholderFile' = ""
    /\ patchedFile' = ""
    /\ warned' = FALSE
    /\ homeBefore' = IF name = "configureGlobalAuth" THEN FileAt(fs, HomeConfigPath)
                     ELSE IF name = "removeGlobalAuth" THEN homeBefore
                     ELSE FileAt(fs, "")
    /\ configPath' = ""
    /\ globalConfig' = FALSE
    /\ prevOutcome' = outcome
    /\ outcome' = NoOutcome

\* the running call ends: it returns (status "ok") or rejects (status "error")
Finish(status, error, phFile, ptFile, w) ==
    /\ pc' = "idle"
    /\ op' = "none"
    /\ pendingErr' = ""
    /\ outcome' = [op |-> op, status |-> status, error |-> error,
                   placeholderFile |-> phFile, patchedFile |-> ptFile, warned |-> w,
                   value |-> ""]
    /\ UNCHANGED prevOutcome

\* an error is thrown at the current step: cleanup swallows it (catch {return}),
\* the try block of configureGlobalAuth catches it, otherwise the call rejects
Throw(error, phFile, ptFile, w) ==
    IF op = "cleanup" THEN Finish("ok", "", phFile, ptFile, w)
    ELSE IF op = "configureGlobalAuth" /\ pc \in TryBlock
    THEN /\ pc' = "configureGlobalAuth.catch"
         /\ pendingErr' = error
         /\ UNCHANGED <<op, outcome, prevOutcome>>
    ELSE Finish("error", error, phFile, ptFile, w)

\* whether the environment makes the next `git config` write or unset fail
FaultChoices == IF faults < MaxFaults THEN {FALSE, TRUE} ELSE {FALSE}

\* execGit: the record of a subprocess run with the overlay
ExecRecord(args, overlay, result) ==
    [args |-> args, env |-> MergedEnv(processEnv, overlay),
     exitCode |-> result.exitCode,
     path |-> IF args[1] = "config"
              THEN GitConfigFile(args[2], MergedEnv(processEnv, overlay)) ELSE ""]

\* an execGit that rejects on every non-zero exit code
ExecThrows_IgnoresFlag(result, allowAllExitCodes) == result.exitCode # 0

\* execGit: exec.exec rejects on a non-zero exit code unless allowAllExitCodes
ExecThrows(result, allowAllExitCodes) == result.exitCode # 0 /\ ~allowAllExitCodes

ExecError(result) ==
    "The process '" \o gitPath \o "' failed with exit code " \o ToString(result.exitCode)

(***************************************************************************)
(* The exported operations, as calls                                       *)
(***************************************************************************)
\* getSource(settings), in a process of its own
GetSource ==
    /\ StartCall("getSource", "createCommandManager")
    /\ settings' = Undefined
    /\ secrets' = {}
    /\ issuedTokens' = {}
    /\ grantRequests' = 0
    /\ gitInitError' = ""
    /\ UNCHANGED <<output, attempt, createdHomes,
                   processEnv, fs, dirs, gitPath, gitEnv, gitReady, helper,
                   temporaryHomePath, lastExec, faults, tempCount>>

\* cleanup(), in a process of its own
Cleanup ==
    /\ StartCall("cleanup", "createCommandManager")
    /\ settings' = Undefined
    /\ secrets' = {}
    /\ issuedTokens' = {}
    /\ grantRequests' = 0
    /\ gitInitError' = ""
    /\ UNCHANGED <<output, attempt, createdHomes,
                   processEnv, fs, dirs, gitPath, gitEnv, gitReady, helper,
                   temporaryHomePath, lastExec, faults, tempCount>>

\* createCommandManager() then createAuthHelper(git, settings) with a
\* delegated token, in a process of its own
CreateAuthHelper ==
    /\ StartCall("createAuthHelper", "createCommandManager")
    /\ \E t \in Tokens : settings' = Str(t) /\ issuedTokens' = {t}
    /\ secrets' = {}
    /\ grantRequests' = 0
    /\ gitInitError' = ""
    /\ UNCHANGED <<output, attempt, createdHomes,
                   processEnv, fs, dirs, gitPath, gitEnv, gitReady, helper,
                   temporaryHomePath, lastExec, faults, tempCount>>

\* a call of a method of the auth helper
HelperCall(name, first) ==
    /\ helper.made
    /\ StartCall(name, first)
    /\ UNCHANGED <<output, attempt, createdHomes,
                   processEnv, fs, dirs, gitPath, gitEnv, gitReady, gitInitError,
                   settings, helper, temporaryHomePath, lastExec,
                   grantRequests, secrets, faults, tempCount, issuedTokens>>

\* GitAuthHelper.configureAuth()
ConfigureAuth == HelperCall("configureAuth", "removeToken.exists")

\* GitAuthHelper.removeAuth()
RemoveAuth == HelperCall("removeAuth", "removeToken.exists")

\* GitAuthHelper.configureGlobalAuth()
ConfigureGlobalAuth ==
    /\ tempCount < MaxTemp
    /\ HelperCall("configureGlobalAuth", "configureGlobalAuth.mkdir")

\* GitAuthHelper.removeGlobalAuth()
RemoveGlobalAuth == HelperCall("removeGlobalAuth", "removeGlobalAuth.rmRF")

(***************************************************************************)
(* git-command-manager.ts: createCommandManager                            *)
(***************************************************************************)
\* the error initializeCommandManager throws, "" when it succeeds
InitializeError(installed, stdout) ==
    IF ~installed THEN "Unable to locate executable file: git"
    ELSE IF ~ProbedVersions[stdout].valid THEN "Unable to determine git version"
    ELSE IF ~CheckMinimum(ProbedVersions[stdout], MinimumGitVersion)
    THEN "Minimum required git version is " \o MinimumGitVersion.text
         \o ". Your git ('" \o GitBinary \o "') is " \o ProbedVersions[stdout].text
    ELSE ""

\* a user agent that leaves the version out
UserAgent_NoVersion(version) == "git (github-actions-checkout)"

\* gitHttpUserAgent
UserAgent(version) == "git/" \o version.text \o " (github-actions-checkout)"

\* createCommandManager: io.which, the version probe, the minimum check and
\* the user agent.  getGitCommandManager (getSource) and the catch of
\* cleanup swallow its error and the session returns.
CreateCommandManager ==
    /\ pc = "createCommandManager"
    /\ \E installed \in BOOLEAN, stdout \in VersionOutputs :
        LET error == InitializeError(installed, stdout) IN
        /\ gitPath' = IF installed THEN GitBinary ELSE ""
        /\ lastExec' = IF installed
                       THEN [args |-> <<"version">>,
                             env |-> MergedEnv(processEnv, InitialGitEnv),
                             exitCode |-> 0, path |-> ""]
                       ELSE lastExec
        /\ gitEnv' = IF error = ""
                     THEN WithKey(InitialGitEnv, "GIT_HTTP_USER_AGENT",
                                  UserAgent(ProbedVersions[stdout]))
                     ELSE InitialGitEnv
        /\ gitReady' = (error = "")
        /\ gitInitError' = error
        /\ IF error = ""
           THEN /\ pc' = IF op = "getSource" THEN "grant" ELSE "createAuthHelper"
                /\ UNCHANGED <<op, pendingErr, outcome, prevOutcome>>
           ELSE IF op = "createAuthHelper"
           THEN Finish("error", error, "", "", FALSE)
           ELSE Finish("ok", "", "", "", FALSE)
    /\ createdHomes' = {}
    /\ helper' = NoAuthHelper
    /\ temporaryHomePath' = ""
    /\ UNCHANGED <<output, attempt,
                   processEnv, fs, dirs, settings, configPath, globalConfig,
                   grantRequests, secrets, ops, faults, tempCount, placeholderFile,
                   patchedFile, homeBefore, issuedTokens, warned>>

(***************************************************************************)
(* git-source-provider.ts: the token exchange of getSource                 *)
(***************************************************************************)
\* the two getSource of the repository: the one that posts with
\* @actions/http-client and the one that posts with got
Variants == {"http-client", "got"}

\* the error the token exchange throws for a response body, "" when it goes on
GrantError(v, body) ==
    IF v = "http-client"
    THEN IF HttpResultIsObject(body) THEN "" ELSE "Empty Token"
    ELSE IF ~GotParseThrows(body) THEN ""
    ELSE IF body.kind = "null" THEN "TypeError: Cannot read property 'token' of null"
    ELSE "SyntaxError: Unexpected end of JSON input"

\* a setSecret that registers nothing
SetSecret_Skip(marked, value) == marked

\* core.setSecret(value): the values marked as secrets afterwards
SetSecret(marked, value) == marked \cup {value}

\* the POST to the grant endpoint, the check of the response,
\* core.setSecret(linkedToken) and settings.linkedToken = linkedToken
GrantRequest ==
    /\ pc = "grant"
    /\ grantRequests' = grantRequests + 1
    /\ \E variant \in Variants, body \in GrantBodies :
        IF GrantError(variant, body) # ""
        THEN /\ Finish("error", GrantError(variant, body), "", "", FALSE)
             /\ UNCHANGED <<settings, secrets, issuedTokens>>
        ELSE /\ secrets' = SetSecret(secrets, body.token.s)
             /\ settings' = body.token
             /\ issuedTokens' = issuedTokens \cup
                                   (IF Truthy(body.token) THEN {body.token.s} ELSE {})
             /\ pc' = "createAuthHelper"
             /\ UNCHANGED <<op, pendingErr, outcome, prevOutcome>>
    /\ UNCHANGED <<output, attempt, createdHomes,
                   processEnv, fs, dirs, gitPath, gitEnv, gitReady, gitInitError,
                   helper, temporaryHomePath, configPath, globalConfig,
                   lastExec, ops, faults, tempCount, placeholderFile, patchedFile,
                   homeBefore, warned>>

\* createAuthHelper: the constructor of GitAuthHelper; cleanup passes no settings
ConstructAuthHelper ==
    /\ pc = "createAuthHelper"
    /\ LET linkedToken == IF op = "cleanup" THEN Undefined ELSE settings IN
        /\ helper' = AuthHelpers[processEnv][linkedToken]
        /\ secrets' = SetSecret(secrets,
                                AuthHelpers[processEnv][linkedToken].basicCredential)
    /\ createdHomes' = {}
    /\ temporaryHomePath' = ""
    /\ IF op = "createAuthHelper"
       THEN Finish("ok", "", "", "", FALSE)
       ELSE /\ pc' = "removeToken.exists"
            /\ UNCHANGED <<op, pendingErr, outcome, prevOutcome>>
    /\ UNCHANGED <<output, attempt,
                   processEnv, fs, dirs, gitPath, gitEnv, gitReady, gitInitError,
                   settings, configPath, globalConfig, lastExec,
                   grantRequests, ops, faults, tempCount, placeholderFile,
                   patchedFile, homeBefore, issuedTokens, warned>>

(***************************************************************************)
(* git-auth-helper.ts: removeAuth, configureAuth, configureToken           *)
(***************************************************************************)
\* a configureAuth that calls configureToken() for the repository-local file
ConfigureAuthTokenArgs_Local == [configPath |-> "", globalConfig |-> FALSE]

\* the arguments configureAuth passes to configureToken
ConfigureAuthTokenArgs == [configPath |-> HomeConfigPath, globalConfig |-> TRUE]

\* the arguments configureGlobalAuth passes to configureToken
ConfigureGlobalAuthTokenArgs(home) ==
    [configPath |-> PathJoin(home, ".gitconfig"), globalConfig |-> TRUE]

\* the argument check of configureToken
ConfigureTokenArgsValid(path, isGlobal) ==
    (path # "" /\ isGlobal) \/ (path = "" /\ ~isGlobal)

\* the config path of configureToken after its default
DefaultedConfigPath(path, isGlobal) ==
    IF path = "" /\ ~isGlobal THEN LocalConfigPath ELSE path

\* a git.config call that is handed the real credential value
PlaceholderArgs_RealValue(h, isGlobal) ==
    ConfigArgs(h.tokenConfigKey, h.tokenConfigValue, isGlobal)

\* configureToken: the arguments of the git.config call that writes the placeholder
PlaceholderArgs(h, isGlobal) ==
    ConfigArgs(h.tokenConfigKey, h.tokenPlaceholderConfigValue, isGlobal)

\* removeGitConfig is over: removeAuth and cleanup return, configureAuth
\* goes on to configureToken
AfterRemoveToken(w) ==
    IF op \in {"removeAuth", "cleanup"}
    THEN /\ Finish("ok", "", placeholderFile, patchedFile, w)
         /\ UNCHANGED <<configPath, globalConfig>>
    ELSE /\ pc' = "configureToken.config"
         /\ configPath' = ConfigureAuthTokenArgs.configPath
         /\ globalConfig' = ConfigureAuthTokenArgs.globalConfig
         /\ UNCHANGED <<op, pendingErr, outcome, prevOutcome>>

\* removeGitConfig: git.configExists(configKey, true)
RemoveTokenExists ==
    /\ pc = "removeToken.exists"
    /\ LET args == ConfigExistsArgs(helper.tokenConfigKey, TRUE)
           result == GitRun(args, MergedEnv(processEnv, gitEnv), fs, dirs, FALSE)
       IN /\ lastExec' = ExecRecord(args, gitEnv, result)
          /\ IF ConfigExists(result)
             THEN /\ pc' = "removeToken.unset"
                  /\ UNCHANGED <<op, pendingErr, outcome, prevOutcome, configPath,
                                 globalConfig>>
             ELSE AfterRemoveToken(FALSE)
    /\ UNCHANGED <<output, attempt, createdHomes,
                   processEnv, fs, dirs, gitPath, gitEnv, gitReady, gitInitError,
                   settings, helper, temporaryHomePath, grantRequests,
                   secrets, ops, faults, tempCount, placeholderFile, patchedFile,
                   homeBefore, issuedTokens, warned>>

\* removeGitConfig: git.tryConfigUnset(configKey, true), whose execGit allows
\* every exit code; a warning when it fails
RemoveTokenUnset ==
    /\ pc = "removeToken.unset"
    /\ \E failed \in FaultChoices :
        LET args == ConfigUnsetArgs(helper.tokenConfigKey, TRUE)
            result == GitRun(args, MergedEnv(processEnv, gitEnv), fs, dirs, failed)
        IN /\ lastExec' = ExecRecord(args, gitEnv, result)
           /\ fs' = result.files
           /\ faults' = faults + (IF failed THEN 1 ELSE 0)
           /\ warned' = (result.exitCode # 0)
           /\ IF ExecThrows(result, TRUE)
              THEN /\ Throw(ExecError(result), placeholderFile, patchedFile, TRUE)
                   /\ UNCHANGED <<configPath, globalConfig>>
              ELSE AfterRemoveToken(result.exitCode # 0)
    /\ UNCHANGED <<output, attempt, createdHomes,
                   processEnv, dirs, gitPath, gitEnv, gitReady, gitInitError,
                   settings, helper, temporaryHomePath, grantRequests,
                   secrets, ops, tempCount, placeholderFile, patchedFile,
                   homeBefore, issuedTokens>>

\* configureToken: the argument check and git.config(tokenConfigKey,
\* tokenPlaceholderConfigValue, globalConfig); in configureGlobalAuth the
\* HOME override is set right before it
ConfigureTokenConfig ==
    /\ pc = "configureToken.config"
    /\ \E failed \in FaultChoices :
        LET overlay == IF op = "configureGlobalAuth"
                       THEN WithKey(gitEnv, "HOME", temporaryHomePath)
                       ELSE gitEnv
            args == PlaceholderArgs(helper, globalConfig)
            result == GitRun(args, MergedEnv(processEnv, overlay), fs, dirs, failed)
        IN
        /\ gitEnv' = overlay
        /\ IF ~ConfigureTokenArgsValid(configPath, globalConfig)
           THEN /\ Throw("Unexpected configureToken parameter combinations",
                         placeholderFile, patchedFile, warned)
                /\ UNCHANGED <<fs, lastExec, faults, placeholderFile>>
           ELSE /\ lastExec' = ExecRecord(args, overlay, result)
                /\ fs' = result.files
                /\ faults' = faults + (IF failed THEN 1 ELSE 0)
                /\ IF ExecThrows(result, FALSE)
                   THEN /\ Throw(ExecError(result), placeholderFile, patchedFile, warned)
                        /\ UNCHANGED placeholderFile
                   ELSE /\ pc' = "configureToken.replace"
                        /\ placeholderFile' = ExecRecord(args, overlay, result).path
                        /\ UNCHANGED <<op, pendingErr, outcome, prevOutcome>>
    /\ UNCHANGED <<output, attempt, createdHomes,
                   processEnv, dirs, gitPath, gitReady, gitInitError, settings,
                   helper, temporaryHomePath, configPath, globalConfig,
                   grantRequests, secrets, ops, tempCount, patchedFile, homeBefore,
                   issuedTokens, warned>>

\* replaceTokenPlaceholder(configPath): read the file, require exactly one
\* placeholder, replace it by tokenConfigValue and write the file back
ReplaceTokenPlaceholder ==
    /\ pc = "configureToken.replace"
    /\ LET path == DefaultedConfigPath(configPath, globalConfig) IN
        IF path = ""
        THEN /\ Throw("configPath is not defined", placeholderFile, patchedFile, warned)
             /\ UNCHANGED <<fs, patchedFile>>
        ELSE IF path \notin DOMAIN fs
        THEN /\ Throw("ENOENT: no such file or directory, open '" \o path \o "'",
                      placeholderFile, patchedFile, warned)
             /\ UNCHANGED <<fs, patchedFile>>
        ELSE IF ~PlaceholderUnique(RenderConfig(fs[path]),
                                   helper.tokenPlaceholderConfigValue)
        THEN /\ Throw("Unable to replace auth placeholder in " \o path,
                      placeholderFile, patchedFile, warned)
             /\ UNCHANGED <<fs, patchedFile>>
        ELSE /\ fs' = [fs EXCEPT ![path] =
                        ParseConfig(ReplacedContent(RenderConfig(fs[path]),
                                                    helper.tokenPlaceholderConfigValue,
                                                    helper.tokenConfigValue))]
             /\ patchedFile' = path
             /\ IF op = "configureGlobalAuth"
                THEN /\ pc' = "configureGlobalAuth.unsetInsteadOf"
                     /\ UNCHANGED <<op, pendingErr, outcome, prevOutcome>>
                ELSE Finish("ok", "", placeholderFile, path, warned)
    /\ UNCHANGED <<output, attempt, createdHomes,
                   processEnv, dirs, gitPath, gitEnv, gitReady, gitInitError,
                   settings, helper, temporaryHomePath, configPath, globalConfig,
                   lastExec, grantRequests, secrets, ops, faults, tempCount,
                   placeholderFile, homeBefore, issuedTokens, warned>>

(***************************************************************************)
(* git-auth-helper.ts: configureGlobalAuth, removeGlobalAuth               *)
(***************************************************************************)
\* fs.promises.mkdir(path, {recursive: true}): the directory and its parent
MkdirRecursive(directories, path) == directories \cup {path, DirName(path)}

\* io.rmRF(path): nothing when the path does not exist
RmRFFiles(files, directories, path) ==
    IF path \notin directories THEN files
    ELSE [p \in {q \in DOMAIN files : ~IsUnder(q, path)} |-> files[p]]

\* an rmRF that deletes by prefix without looking whether the path exists
RmRFDirs_NoExistenceCheck(directories, path) ==
    {d \in directories : ~IsUnder(d, path)}

\* an rmRF that leaves the directories in place
RmRFDirs_Keep(directories, path) == directories

\* io.rmRF(path): the directories left
RmRFDirs(directories, path) ==
    IF path \notin directories THEN directories
    ELSE {d \in directories : ~IsUnder(d, path)}

\* a runnerTemp that falls back to the system's temporary directory
RunnerTemp_Fallback(penv) == EnvOr(penv, "RUNNER_TEMP", "/tmp")

\* const runnerTemp = process.env['RUNNER_TEMP'] || ''
RunnerTemp(penv) == EnvOr(penv, "RUNNER_TEMP", "")

\* configureGlobalAuth: RUNNER_TEMP must be defined; uuid(); mkdir of the
\* temporary home
ConfigureGlobalAuthMkdir ==
    /\ pc = "configureGlobalAuth.mkdir"
    /\ LET runnerTemp == RunnerTemp(processEnv) IN
        IF runnerTemp = ""
        THEN /\ Finish("error", "RUNNER_TEMP is not defined", "", "", FALSE)
             /\ UNCHANGED <<temporaryHomePath, dirs, tempCount, createdHomes>>
        ELSE /\ temporaryHomePath' = PathJoin(runnerTemp, Uuid(tempCount + 1))
             /\ tempCount' = tempCount + 1
             /\ createdHomes' = createdHomes \cup {PathJoin(runnerTemp, Uuid(tempCount + 1))}
             /\ dirs' = MkdirRecursive(dirs, PathJoin(runnerTemp, Uuid(tempCount + 1)))
             /\ pc' = "configureGlobalAuth.copy"
             /\ UNCHANGED <<op, pendingErr, outcome, prevOutcome>>
    /\ UNCHANGED <<output, attempt,
                   processEnv, fs, gitPath, gitEnv, gitReady, gitInitError, settings,
                   helper, configPath, globalConfig, lastExec, grantRequests,
                   secrets, ops, faults, placeholderFile, patchedFile, homeBefore,
                   issuedTokens, warned>>

\* configureGlobalAuth: copy <home>/.gitconfig into the temporary home, or
\* write an empty file there when there is none
ConfigureGlobalAuthCopy ==
    /\ pc = "configureGlobalAuth.copy"
    /\ LET newGitConfigPath == ConfigureGlobalAuthTokenArgs(temporaryHomePath).configPath IN
        /\ fs' = [p \in DOMAIN fs \cup {newGitConfigPath} |->
                    IF p # newGitConfigPath THEN fs[p]
                    ELSE IF HomeConfigPath \in DOMAIN fs THEN fs[HomeConfigPath]
                    ELSE ParseConfig("")]
        /\ configPath' = newGitConfigPath
        /\ globalConfig' = ConfigureGlobalAuthTokenArgs(temporaryHomePath).globalConfig
    /\ pc' = "configureToken.config"
    /\ UNCHANGED <<output, attempt, createdHomes,
                   processEnv, dirs, gitPath, gitEnv, gitReady, gitInitError, settings,
                   helper, temporaryHomePath, op, pendingErr, outcome,
                   prevOutcome, lastExec, grantRequests, secrets, ops, faults,
                   tempCount, placeholderFile, patchedFile, homeBefore, issuedTokens,
                   warned>>

\* configureGlobalAuth: git.tryConfigUnset(insteadOfKey, true)
ConfigureGlobalAuthUnsetInsteadOf ==
    /\ pc = "configureGlobalAuth.unsetInsteadOf"
    /\ LET args == ConfigUnsetArgs(helper.insteadOfKey, TRUE)
           result == GitRun(args, MergedEnv(processEnv, gitEnv), fs, dirs, FALSE)
       IN /\ lastExec' = ExecRecord(args, gitEnv, result)
          /\ fs' = result.files
    /\ pc' = "configureGlobalAuth.setInsteadOf"
    /\ UNCHANGED <<output, attempt, createdHomes,
                   processEnv, dirs, gitPath, gitEnv, gitReady, gitInitError, settings,
                   helper, temporaryHomePath, configPath, globalConfig, op,
                   pendingErr, outcome, prevOutcome, grantRequests, secrets, ops,
                   faults, tempCount, placeholderFile, patchedFile, homeBefore,
                   issuedTokens, warned>>

\* configureGlobalAuth: git.config(insteadOfKey, insteadOfValue, true)
ConfigureGlobalAuthSetInsteadOf ==
    /\ pc = "configureGlobalAuth.setInsteadOf"
    /\ \E failed \in FaultChoices :
        LET args == ConfigArgs(helper.insteadOfKey, helper.insteadOfValue, TRUE)
            result == GitRun(args, MergedEnv(processEnv, gitEnv), fs, dirs, failed)
        IN /\ lastExec' = ExecRecord(args, gitEnv, result)
           /\ fs' = result.files
           /\ faults' = faults + (IF failed THEN 1 ELSE 0)
           /\ IF ExecThrows(result, FALSE)
              THEN Throw(ExecError(result), placeholderFile, patchedFile, warned)
              ELSE Finish("ok", "", placeholderFile, patchedFile, warned)
    /\ UNCHANGED <<output, attempt, createdHomes,
                   processEnv, dirs, gitPath, gitEnv, gitReady, gitInitError, settings,
                   helper, temporaryHomePath, configPath, globalConfig,
                   grantRequests, secrets, ops, tempCount, placeholderFile,
                   patchedFile, homeBefore, issuedTokens, warned>>

\* configureGlobalAuth, catch block: git.tryConfigUnset(tokenConfigKey, true),
\* whose execGit allows every exit code, then throw err
ConfigureGlobalAuthCatch ==
    /\ pc = "configureGlobalAuth.catch"
    /\ \E failed \in FaultChoices :
        LET args == ConfigUnsetArgs(helper.tokenConfigKey, TRUE)
            result == GitRun(args, MergedEnv(processEnv, gitEnv), fs, dirs, failed)
        IN /\ lastExec' = ExecRecord(args, gitEnv, result)
           /\ fs' = result.files
           /\ faults' = faults + (IF failed THEN 1 ELSE 0)
           /\ IF ExecThrows(result, TRUE)
              THEN Finish("error", ExecError(result), placeholderFile, patchedFile, warned)
              ELSE Finish("error", pendingErr, placeholderFile, patchedFile, warned)
    /\ UNCHANGED <<output, attempt, createdHomes,
                   processEnv, dirs, gitPath, gitEnv, gitReady, gitInitError, settings,
                   helper, temporaryHomePath, configPath, globalConfig,
                   grantRequests, secrets, ops, tempCount, placeholderFile,
                   patchedFile, homeBefore, issuedTokens, warned>>

\* removeGlobalAuth: git.removeEnvironmentVariable('HOME') and
\* io.rmRF(temporaryHomePath)
RemoveGlobalAuthRmRF ==
    /\ pc = "removeGlobalAuth.rmRF"
    /\ gitEnv' = WithoutKey(gitEnv, "HOME")
    /\ fs' = RmRFFiles(fs, dirs, temporaryHomePath)
    /\ dirs' = RmRFDirs(dirs, temporaryHomePath)
    /\ Finish("ok", "", "", "", FALSE)
    /\ UNCHANGED <<output, attempt, createdHomes,
                   processEnv, gitPath, gitReady, gitInitError, settings, helper,
                   temporaryHomePath, configPath, globalConfig, lastExec,
                   grantRequests, secrets, ops, faults, tempCount, placeholderFile,
                   patchedFile, homeBefore, issuedTokens, warned>>

(***************************************************************************)
(* git-command-manager.ts: getDefaultBranch, under retryHelper.execute     *)
(***************************************************************************)
\* RetryHelper.maxAttempts
MaxAttempts == 3

\* the repository getDefaultBranch is asked about
RepositoryUrl == "https://github.com/octo/linked"

\* the argument vector of getDefaultBranch
LsRemoteArgs(repositoryUrl) ==
    <<"ls-remote", "--quiet", "--exit-code", "--symref", repositoryUrl, "HEAD">>

\* what `git ls-remote --symref <url> HEAD` can print when it exits 0
LsRemoteOutputs ==
    {"ref: refs/heads/main\tHEAD\n0a1b2c3d\tHEAD\n",
     "  ref: refs/heads/trunk \t HEAD  \n",
     "warning: redirecting\nref: refs/heads/dev\tHEAD\n0a1b2c3d\tHEAD\n",
     "0a1b2c3d\tHEAD\nref: refs/heads/main\tHEAD\n",
     "0a1b2c3d\tHEAD\n",
     "ref: refs/heads/dev\n",
     "HEAD\n",
     "warning: no symref\n",
     ""}

\* getDefaultBranch: line.startsWith('ref:') || line.endsWith('HEAD')
IsSymrefLine(line) == StartsWith(line, "ref:") \/ EndsWith(line, "HEAD")

\* getDefaultBranch: line.substr('ref:'.length,
\*   line.length - 'ref:'.length - 'HEAD'.length).trim()
SymrefTarget(line) ==
    Trim(Substr(line, Len("ref:"), Len(line) - Len("ref:") - Len("HEAD")))

\* getDefaultBranch after the subprocess: the value returned for the first
\* line of the trimmed stdout that passes the test, or nothing found (the
\* function throws)
DefaultBranch(stdout) ==
    LET lines == Split(Trim(stdout), "\n")
        hits == {i \in 1..Len(lines) : IsSymrefLine(Trim(lines[i]))}
    IN IF hits = {} THEN [found |-> FALSE, value |-> ""]
       ELSE [found |-> TRUE, value |-> SymrefTarget(Trim(lines[Min(hits)]))]

\* getDefaultBranch of every output, computed once
DefaultBranches == [stdout \in LsRemoteOutputs |-> DefaultBranch(stdout)]

\* GitCommandManager.getDefaultBranch(repositoryUrl) is called
GetDefaultBranch ==
    /\ gitReady
    /\ StartCall("getDefaultBranch", "getDefaultBranch.lsRemote")
    /\ attempt' = 1
    /\ output' = NoOutput
    /\ UNCHANGED <<createdHomes, processEnv, fs, dirs, gitPath, gitEnv, gitReady,
                   gitInitError, settings, helper, temporaryHomePath, lastExec,
                   grantRequests, secrets, faults, tempCount, issuedTokens>>

\* one attempt of retryHelper.execute: execGit of ls-remote; a failing
\* attempt is logged and repeated while attempt < maxAttempts, the failure of
\* the last attempt is thrown
LsRemote ==
    /\ pc = "getDefaultBranch.lsRemote"
    /\ \E exitCode \in {0, 2, 128} :
       \E stdout \in IF exitCode = 0 THEN LsRemoteOutputs ELSE {""} :
        LET result == [exitCode |-> exitCode, files |-> fs] IN
        /\ lastExec' = ExecRecord(LsRemoteArgs(RepositoryUrl), gitEnv, result)
        /\ IF ~ExecThrows(result, FALSE)
           THEN /\ output' = [set |-> TRUE, stdout |-> stdout, exitCode |-> exitCode]
                /\ pc' = "getDefaultBranch.parse"
                /\ UNCHANGED <<attempt, warned, op, pendingErr, outcome, prevOutcome>>
           ELSE IF attempt < MaxAttempts
           THEN /\ attempt' = attempt + 1
                /\ warned' = TRUE
                /\ UNCHANGED <<output, pc, op, pendingErr, outcome, prevOutcome>>
           ELSE /\ Finish("error", ExecError(result), "", "", warned)
                /\ UNCHANGED <<output, attempt, warned>>
    /\ UNCHANGED <<createdHomes, processEnv, fs, dirs, gitPath, gitEnv, gitReady,
                   gitInitError, settings, helper, temporaryHomePath, configPath,
                   globalConfig, grantRequests, secrets, ops, faults, tempCount,
                   placeholderFile, patchedFile, homeBefore, issuedTokens>>

\* getDefaultBranch after retryHelper.execute: return the target of the
\* first line that passes the test or throw 'Unexpected output'
ParseDefaultBranch ==
    /\ pc = "getDefaultBranch.parse"
    /\ IF DefaultBranches[output.stdout].found
       THEN /\ pc' = "idle"
            /\ op' = "none"
            /\ pendingErr' = ""
            /\ outcome' = [NoOutcome EXCEPT !.op = op, !.warned = warned,
                                            !.value = DefaultBranches[output.stdout].value]
            /\ UNCHANGED prevOutcome
       ELSE Finish("error", "Unexpected output when retrieving default branch",
                   "", "", warned)
    /\ UNCHANGED <<output, attempt, createdHomes, processEnv, fs, dirs, gitPath, gitEnv,
                   gitReady, gitInitError, settings, helper, temporaryHomePath,
                   configPath, globalConfig, lastExec, grantRequests, secrets, ops,
                   faults, tempCount, placeholderFile, patchedFile, homeBefore,
                   issuedTokens, warned>>

(***************************************************************************)
(* Specification                                                           *)
(***************************************************************************)
Next ==
    \/ GetSource
    \/ Cleanup
    \/ CreateAuthHelper
    \/ ConfigureAuth
    \/ RemoveAuth
    \/ ConfigureGlobalAuth
    \/ RemoveGlobalAuth
    \/ CreateCommandManager
    \/ GrantRequest
    \/ ConstructAuthHelper
    \/ RemoveTokenExists
    \/ RemoveTokenUnset
    \/ ConfigureTokenConfig
    \/ ReplaceTokenPlaceholder
    \/ ConfigureGlobalAuthMkdir
    \/ ConfigureGlobalAuthCopy
    \/ ConfigureGlobalAuthUnsetInsteadOf
    \/ ConfigureGlobalAuthSetInsteadOf
    \/ ConfigureGlobalAuthCatch
    \/ RemoveGlobalAuthRmRF

Spec == Init /\ [][Next]_vars

\* the state after createCommandManager() has returned a command manager
InitBranch ==
    /\ processEnv \in ProcessEnvs
    /\ fs = [p \in {LocalConfigPath} |-> ParseConfig(LocalConfigText)]
    /\ dirs = {RealHome, PathJoin(WorkDir, ".git")}
    /\ gitPath = GitBinary
    /\ gitEnv = WithKey(InitialGitEnv, "GIT_HTTP_USER_AGENT",
                        UserAgent(ProbedVersions["git version 2.18.0\n"]))
    /\ gitReady = TRUE
    /\ gitInitError = ""
    /\ settings = Undefined
    /\ helper = NoAuthHelper
    /\ temporaryHomePath = ""
    /\ configPath = ""
    /\ globalConfig = FALSE
    /\ op = "none"
    /\ pc = "idle"
    /\ pendingErr = ""
    /\ outcome = NoOutcome
    /\ prevOutcome = NoOutcome
    /\ lastExec = [args |-> <<"version">>, env |-> MergedEnv(processEnv, InitialGitEnv),
                   exitCode |-> 0, path |-> ""]
    /\ grantRequests = 0
    /\ secrets = {}
    /\ ops = 0
    /\ faults = 0
    /\ tempCount = 0
    /\ placeholderFile = ""
    /\ patchedFile = ""
    /\ homeBefore = FileAt(fs, HomeConfigPath)
    /\ issuedTokens = {}
    /\ warned = FALSE
    /\ createdHomes = {}
    /\ output = NoOutput
    /\ attempt = 0

NextBranch ==
    \/ GetDefaultBranch
    \/ LsRemote
    \/ ParseDefaultBranch

\* getDefaultBranch called on an initialized command manager
SpecBranch == InitBranch /\ [][NextBranch]_vars


(***************************************************************************)
(* Properties                                                              *)
(***************************************************************************)
\* does a config file hold the text inside one of its keys or values
EntriesInclude(entries, text) ==
    \E i \in 1..Len(entries) :
        Includes(entries[i].value, text) \/ Includes(entries[i].key, text)

\* does the file at the path exist and hold the text
HoldsText(files, path, text) ==
    path \in DOMAIN files /\ EntriesInclude(files[path], text)

\* the number of places of a content at which the placeholder occurs
CountOccurrences(content, placeholder) ==
    Cardinality({i \in 1..Len(content) : OccursAt(content, placeholder, i)})

\* the secret texts of the running process: the delegated tokens and the
\* base64 credential of the helper
SecretTexts ==
    issuedTokens \cup (IF helper.made THEN {helper.basicCredential} ELSE {})

\* every secret text a process of the model can hold, and the word that
\* starts a credential value
WatchedTexts ==
    Tokens \cup {"AUTHORIZATION"}
    \cup {AuthHelpers[e][t].basicCredential : e \in ProcessEnvs, t \in LinkedTokens}

\* the arguments the command manager builds from scopes, keys and the placeholder
KnownArguments ==
    {"version", "config", "--global", "--local", "--unset-all", "--name-only",
     "--get-regexp", "AUTHORIZATION: basic ***"}
    \cup TokenConfigKeys \cup {EscapedKeys[k] : k \in TokenConfigKeys}
    \cup {AuthHelpers[e][Undefined].insteadOfKey : e \in ProcessEnvs}
    \cup {AuthHelpers[e][Undefined].insteadOfValue : e \in ProcessEnvs}

\* the watched texts each known argument contains, computed once
KnownArgumentTexts ==
    [a \in KnownArguments |-> {t \in WatchedTexts : Includes(a, t)}]

\* the watched texts an argument contains
TextsIn(argument) ==
    IF argument \in KnownArguments THEN KnownArgumentTexts[argument]
    ELSE {t \in WatchedTexts : Includes(argument, t)}

\* the last argument vector holds no secret text, and a credential value in
\* it is the placeholder
ArgvClean ==
    \A i \in 1..Len(lastExec.args) :
        /\ TextsIn(lastExec.args[i]) \cap SecretTexts = {}
        /\ "AUTHORIZATION" \in TextsIn(lastExec.args[i]) =>
                lastExec.args[i] = "AUTHORIZATION: basic ***"

\* a step after which a file newly holds the credential of the helper is a
\* direct file operation (the replace step, or the copy of a config file that
\* already held it), never a git subprocess
CredentialEntersByFileWrite ==
    \A p \in DOMAIN fs' :
        (/\ helper'.made
         /\ p \notin DOMAIN fs \/ fs'[p] # fs[p]
         /\ HoldsText(fs', p, helper'.basicCredential)
         /\ ~HoldsText(fs, p, helper'.basicCredential))
        => pc \in {"configureToken.replace", "configureGlobalAuth.copy"}

\* C1: for every sequence of getSource, cleanup, configureAuth,
\* configureGlobalAuth, removeAuth and removeGlobalAuth, no argument vector
\* handed to the git subprocess contains a delegated token or the base64
\* credential; a credential value among the arguments is the placeholder
\* "AUTHORIZATION: basic ***"; and no subprocess step makes a config file hold
\* the real credential: it enters a file through the write of the replace step
\* (or the copy of a file that the replace step patched).
C1_NoSecretInArgv ==
    []ArgvClean /\ [][fs' # fs => CredentialEntersByFileWrite]_vars

\* C1 witness: configureAuth has succeeded, its last subprocess was handed the
\* placeholder, and the patched file holds the real credential
C1_Witness ==
    /\ pc = "idle"
    /\ outcome.op = "configureAuth"
    /\ outcome.status = "ok"
    /\ GitCommand(lastExec.args) = "set"
    /\ lastExec.args[4] = "AUTHORIZATION: basic ***"
    /\ HoldsText(fs, outcome.patchedFile, helper.tokenConfigValue)

\* the credential values of sample tokens, among them tokens made of "*"
SampleConfigValues ==
    {TokenConfigValue(t) : t \in LinkedTokens \cup {Str("***"), Str("*")}}

\* the file has the placeholder and not the real credential value
PlaceholderOnly(path) ==
    /\ HoldsText(fs, path, helper.tokenPlaceholderConfigValue)
    /\ ~HoldsText(fs, path, helper.tokenConfigValue)

\* C2: the placeholder value and the real credential value differ for every
\* delegated token, and at every point between the placeholder write
\* (git config set) and the replace step the target config file, the one the
\* replace step is about to read and patch, contains the placeholder and does
\* not contain the real credential value.
C2_PlaceholderWindow ==
    /\ \A v \in SampleConfigValues : v # TokenPlaceholderConfigValue
    /\ pc = "configureToken.replace" =>
            PlaceholderOnly(DefaultedConfigPath(configPath, globalConfig))

\* the getSource session has received the grant response
GrantAnswered ==
    /\ grantRequests = 1
    /\ pc # "grant"
    /\ op = "getSource" \/ (pc = "idle" /\ outcome.op = "getSource")

\* C3: when the response of the grant endpoint has no non-empty token field
\* (the body {"token": ""}, a body without a token field, no parsable body),
\* getSource fails and performs no config write: the version probe stays its
\* last subprocess, no placeholder is written and no file is patched.  (The
\* claim names the error, 'Empty Token'; this is the claim for any error.)
C3_EmptyTokenFails ==
    (GrantAnswered /\ ~Truthy(settings)) =>
        /\ pc = "idle"
        /\ outcome.status = "error"
        /\ lastExec.args = <<"version">>
        /\ outcome.placeholderFile = ""
        /\ outcome.patchedFile = ""

\* C4: when git cannot be located, or its version cannot be parsed or is
\* below 2.18, getSource ends with an error surfaced to its caller, before any
\* grant request, placeholder write or file patch.
C4_GitProbeFailureIsFatal ==
    (pc = "idle" /\ outcome.op = "getSource" /\ gitInitError # "") =>
        /\ outcome.status = "error"
        /\ grantRequests = 0
        /\ outcome.placeholderFile = ""
        /\ outcome.patchedFile = ""

\* C5: after removeGlobalAuth, and after configureGlobalAuth has ended with
\* an error, the environment overlay of the command manager has no HOME entry.
C5_HomeOverlayReleased ==
    (/\ pc = "idle"
     /\ \/ outcome.op = "removeGlobalAuth"
        \/ outcome.op = "configureGlobalAuth" /\ outcome.status = "error")
    => "HOME" \notin DOMAIN gitEnv

\* the content with the text at position i, of length n, replaced by the value
Spliced(content, i, n, value) ==
    Slice(content, 1, i - 1) \o value \o Slice(content, i + n, Len(content))

\* the replace step: it throws and leaves every file as it is unless the file
\* holds the placeholder exactly once; then it returns and the file holds the
\* real value at the place of the placeholder
ReplaceStepContract ==
    pc = "configureToken.replace" =>
        LET path == DefaultedConfigPath(configPath, globalConfig)
            placeholder == "AUTHORIZATION: basic ***"
            content == IF path \in DOMAIN fs THEN RenderConfig(fs[path]) ELSE ""
            places == {i \in 1..Len(content) : OccursAt(content, placeholder, i)}
            threw == \/ pc' = "configureGlobalAuth.catch"
                     \/ pc' = "idle" /\ outcome'.status = "error"
        IN IF Cardinality(places) = 1
           THEN /\ ~threw
                /\ DOMAIN fs' = DOMAIN fs
                /\ \A q \in DOMAIN fs \ {path} : fs'[q] = fs[q]
                /\ RenderConfig(fs'[path]) =
                       Spliced(content, CHOOSE i \in places : TRUE, Len(placeholder),
                               helper.tokenConfigValue)
                /\ CountOccurrences(RenderConfig(fs'[path]), placeholder) = 0
                /\ OccursAt(RenderConfig(fs'[path]), helper.tokenConfigValue,
                            CHOOSE i \in places : TRUE)
           ELSE threw /\ fs' = fs

\* C6: the replace step succeeds only when the config file holds the
\* placeholder exactly once: with no occurrence or with two or more it throws
\* and leaves the file unchanged; with exactly one the file afterwards holds
\* the real credential value in its place and no placeholder.
C6_ReplaceExactlyOne == [][ReplaceStepContract]_vars

\* C6 witness: the replace step has refused a file that holds the placeholder
\* twice
C6_Witness ==
    /\ pc = "idle"
    /\ outcome.status = "error"
    /\ outcome.error = "Unable to replace auth placeholder in /home/runner/.gitconfig"
    /\ CountOccurrences(RenderConfig(fs["/home/runner/.gitconfig"]),
                        "AUTHORIZATION: basic ***") = 2

\* the file does not exist or holds no entry of the key
KeyAbsent(path, key) == path \notin DOMAIN fs \/ ~ConfigHasKey(fs[path], key)

\* C7: after a successful configureAuth followed immediately by removeAuth
\* the credential key is absent from the configuration configureAuth wrote
\* to: the file its subprocess wrote the placeholder to and the file its
\* replace step patched.
C7_ConfigureRemoveRoundTrip ==
    (/\ pc = "idle"
     /\ outcome.op = "removeAuth"
     /\ prevOutcome.op = "configureAuth"
     /\ prevOutcome.status = "ok")
    => /\ KeyAbsent(prevOutcome.placeholderFile, helper.tokenConfigKey)
       /\ KeyAbsent(prevOutcome.patchedFile, helper.tokenConfigKey)

\* configureAuth is between its placeholder write and its replace step
ConfigureAuthWritten ==
    op \in {"configureAuth", "getSource"} /\ pc = "configureToken.replace"

\* configureAuth has returned
ConfigureAuthDone ==
    pc = "idle" /\ outcome.op \in {"configureAuth", "getSource"}
    /\ outcome.status = "ok" /\ outcome.patchedFile # ""

\* C8 as stated: configureAuth is repository-scoped: it writes the
\* placeholder with local scope, patches <work dir>/.git/config and does not
\* write the credential into <home>/.gitconfig.
C8_ConfigureAuthIsLocal ==
    /\ ConfigureAuthWritten =>
            /\ lastExec.args[2] = "--local"
            /\ placeholderFile = "/work/.git/config"
    /\ ConfigureAuthDone =>
            /\ outcome.patchedFile = "/work/.git/config"
            /\ ~HoldsText(fs, "/home/runner/.gitconfig", helper.tokenConfigValue)

\* C8 amended: configureAuth is global-scoped: it writes the placeholder
\* with `git config --global`, patches <home>/.gitconfig, <home> being HOME
\* of the process, and never writes <work dir>/.git/config.
C8_ConfigureAuthIsGlobal ==
    /\ ConfigureAuthWritten =>
            /\ lastExec.args[2] = "--global"
            /\ configPath = "/home/runner/.gitconfig"
    /\ ConfigureAuthDone =>
            /\ outcome.patchedFile = "/home/runner/.gitconfig"
            /\ HoldsText(fs, "/home/runner/.gitconfig", helper.tokenConfigValue)
    /\ fs["/work/.git/config"] = ParseConfig(LocalConfigText)

\* C8 witness: configureAuth has returned and <home>/.gitconfig holds the
\* real credential under the credential key
C8_Witness ==
    /\ ConfigureAuthDone
    /\ outcome.op = "configureAuth"
    /\ "/home/runner/.gitconfig" \in DOMAIN fs
    /\ ConfigValues(fs["/home/runner/.gitconfig"], helper.tokenConfigKey)
            = <<helper.tokenConfigValue>>

\* a run of configureGlobalAuth, up to the end of the removeGlobalAuth that
\* follows it
GlobalAuthRun ==
    \/ op = "configureGlobalAuth"
    \/ pc = "idle" /\ outcome.op = "configureGlobalAuth"
    \/ op = "removeGlobalAuth" /\ prevOutcome.op = "configureGlobalAuth"
    \/ pc = "idle" /\ outcome.op = "removeGlobalAuth"
                   /\ prevOutcome.op = "configureGlobalAuth"

\* C9: from the call of configureGlobalAuth (successful or failing) to the end
\* of the removeGlobalAuth that follows it, <real home>/.gitconfig has the
\* content it had before; and while the overlay has a HOME entry, every
\* `git config --global` subprocess works on .gitconfig of the temporary
\* directory.
C9_SandboxIsolation ==
    /\ GlobalAuthRun => FileAt(fs, "/home/runner/.gitconfig") = homeBefore
    /\ ("HOME" \in DOMAIN gitEnv /\ Len(lastExec.args) > 1
            /\ lastExec.args[1] = "config" /\ lastExec.args[2] = "--global")
        => /\ lastExec.path = gitEnv["HOME"] \o "/.gitconfig"
           /\ IsUnder(lastExec.path, "/runner/_temp")

\* C9 witness: removeGlobalAuth has followed a configureGlobalAuth that wrote
\* its configuration, and <real home>/.gitconfig exists
C9_Witness ==
    /\ pc = "idle"
    /\ outcome.op = "removeGlobalAuth"
    /\ prevOutcome.op = "configureGlobalAuth"
    /\ prevOutcome.patchedFile # ""
    /\ DOMAIN homeBefore # {}

\* configureGlobalAuth of a helper for github.com, called with no
\* <real home>/.gitconfig
NoHomeConfig == DOMAIN homeBefore = {}

\* C10: configureGlobalAuth with no pre-existing .gitconfig creates an empty
\* .gitconfig in a new directory under RUNNER_TEMP; when it returns the file
\* holds the real credential under http.<origin>/.extraheader and the rule
\* url.<origin>/.insteadOf = git@<hostname>: and nothing else; the
\* removeGlobalAuth that follows leaves no file or directory of the temporary
\* directory and no HOME entry in the overlay.
C10_GlobalScenario ==
    /\ (op = "configureGlobalAuth" /\ pc = "configureToken.config" /\ NoHomeConfig)
        => /\ temporaryHomePath = "/runner/_temp/" \o Uuid(tempCount)
           /\ temporaryHomePath \in dirs
           /\ configPath = temporaryHomePath \o "/.gitconfig"
           /\ configPath \in DOMAIN fs
           /\ fs[configPath] = <<>>
    /\ (pc = "idle" /\ outcome.op = "configureGlobalAuth" /\ outcome.status = "ok"
            /\ NoHomeConfig)
        => /\ (temporaryHomePath \o "/.gitconfig") \in DOMAIN fs
           /\ fs[temporaryHomePath \o "/.gitconfig"] =
                <<[key |-> "http.https://github.com/.extraheader",
                   value |-> "AUTHORIZATION: basic " \o helper.basicCredential],
                  [key |-> "url.https://github.com/.insteadOf",
                   value |-> "git@github.com:"]>>
           /\ gitEnv["HOME"] = temporaryHomePath
    /\ (pc = "idle" /\ outcome.op = "removeGlobalAuth"
            /\ prevOutcome.op = "configureGlobalAuth" /\ prevOutcome.status = "ok")
        => /\ \A q \in DOMAIN fs : ~IsUnder(q, temporaryHomePath)
           /\ \A d \in dirs : ~IsUnder(d, temporaryHomePath)
           /\ "HOME" \notin DOMAIN gitEnv

\* C10 witness: removeGlobalAuth has followed a successful configureGlobalAuth
\* that started with no <real home>/.gitconfig
C10_Witness ==
    /\ pc = "idle"
    /\ outcome.op = "removeGlobalAuth"
    /\ prevOutcome.op = "configureGlobalAuth"
    /\ prevOutcome.status = "ok"
    /\ NoHomeConfig
    /\ temporaryHomePath # ""

\* the paths inside the directory, the directory itself included
PathsUnder(paths, dir) == {p \in paths : dir # "" /\ IsUnder(p, dir)}

\* C11 as stated: removeGlobalAuth unsets the credential config key: when it
\* has returned, its last subprocess was `git config --global --unset-all
\* <credential key>`, besides the HOME overlay being removed and the temporary
\* directory deleted.
C11_RemoveGlobalAuthUnsets ==
    (pc = "idle" /\ outcome.op = "removeGlobalAuth")
    => /\ Len(lastExec.args) = 4
       /\ GitCommand(lastExec.args) = "unset"
       /\ lastExec.args[4] = helper.tokenConfigKey
       /\ "HOME" \notin DOMAIN gitEnv
       /\ PathsUnder(dirs, temporaryHomePath) = {}

\* removeGlobalAuth runs no subprocess and touches nothing outside the
\* temporary directory: it removes HOME from the overlay and deletes the
\* temporary directory with every file in it
RemoveGlobalAuthContract ==
    pc = "removeGlobalAuth.rmRF" =>
        /\ lastExec' = lastExec
        /\ pc' = "idle" /\ outcome'.status = "ok"
        /\ gitEnv' = [k \in DOMAIN gitEnv \ {"HOME"} |-> gitEnv[k]]
        /\ PathsUnder(dirs', temporaryHomePath) = {}
        /\ PathsUnder(DOMAIN fs', temporaryHomePath) = {}
        /\ dirs' = dirs \ PathsUnder(dirs, temporaryHomePath)
        /\ \A p \in DOMAIN fs \ PathsUnder(DOMAIN fs, temporaryHomePath) :
                p \in DOMAIN fs' /\ fs'[p] = fs[p]

\* C11 amended: removeGlobalAuth does not unset the credential config key and
\* issues no subprocess at all: it removes the HOME entry from the overlay and
\* recursively deletes the temporary directory (and with it the temporary
\* .gitconfig that holds the credential); every file outside the temporary
\* directory, <real home>/.gitconfig included, is left as it is.  Only
\* removeAuth unsets the key.
C11_RemoveGlobalAuthNoUnset == [][RemoveGlobalAuthContract]_vars

\* C11 witness: removeGlobalAuth has returned after a successful
\* configureGlobalAuth and the last subprocess is still the insteadOf write of
\* configureGlobalAuth
C11_Witness ==
    /\ pc = "idle"
    /\ outcome.op = "removeGlobalAuth"
    /\ prevOutcome.op = "configureGlobalAuth"
    /\ prevOutcome.status = "ok"
    /\ GitCommand(lastExec.args) = "set"
    /\ lastExec.args[3] = helper.insteadOfKey
    /\ lastExec.exitCode = 0

\* C12: a temporary home directory exists only if configureGlobalAuth was
\* called, and when removeGlobalAuth has returned no temporary home directory
\* that this GitAuthHelper created is left on disk, whatever the sequence of
\* configureGlobalAuth and removeGlobalAuth calls was (configureGlobalAuth
\* called twice before the teardown included).
C12_TemporaryHomeLifecycle ==
    /\ tempCount = 0 => PathsUnder(dirs, "/runner/_temp") = {}
    /\ createdHomes = {} => temporaryHomePath = ""
    /\ (pc = "idle" /\ outcome.op = "removeGlobalAuth")
        => \A home \in createdHomes :
                /\ PathsUnder(dirs, home) = {}
                /\ PathsUnder(DOMAIN fs, home) = {}

\* the number of places of the file's text at which the placeholder occurs
PlaceholderCount(path) ==
    IF path \notin DOMAIN fs THEN 0
    ELSE CountOccurrences(RenderConfig(fs[path]), "AUTHORIZATION: basic ***")

\* the try block of configureGlobalAuth and its catch block: a step of the
\* try block fails exactly when its subprocess exits non-zero (placeholder
\* write, insteadOf write) or the file does not hold exactly one placeholder
\* (replace step); a failure leads to the catch block with that error; the
\* catch block runs the unset of the credential key and, whatever its exit
\* code, the call rejects with the error of the try block
CatchContract ==
    /\ (op = "configureGlobalAuth"
            /\ pc \in {"configureToken.config", "configureGlobalAuth.setInsteadOf"})
        => /\ (lastExec'.exitCode # 0) = (pc' = "configureGlobalAuth.catch")
           /\ pc' = "configureGlobalAuth.catch" =>
                pendingErr' = "The process '/usr/bin/git' failed with exit code "
                              \o ToString(lastExec'.exitCode)
           /\ pc' = "idle" => outcome'.status = "ok"
    /\ (op = "configureGlobalAuth" /\ pc = "configureToken.replace")
        => /\ (PlaceholderCount(configPath) # 1) = (pc' = "configureGlobalAuth.catch")
           /\ pc' = "configureGlobalAuth.catch" =>
                pendingErr' = "Unable to replace auth placeholder in " \o configPath
           /\ pc' # "idle"
    /\ pc = "configureGlobalAuth.catch"
        => /\ lastExec'.args = <<"config", "--global", "--unset-all", helper.tokenConfigKey>>
           /\ pc' = "idle"
           /\ outcome'.op = "configureGlobalAuth"
           /\ outcome'.status = "error"
           /\ outcome'.error = pendingErr

\* C13: when the placeholder write, the replace step or the insteadOf write
\* fails inside configureGlobalAuth, the unset of the credential key is
\* attempted and configureGlobalAuth rejects with the original failure; a
\* failing cleanup unset is swallowed and never replaces the original error.
C13_CleanupKeepsOriginalError == [][CatchContract]_vars

\* C13 witness: configureGlobalAuth has rejected with the error of its replace
\* step although the cleanup unset failed as well
C13_Witness ==
    /\ pc = "idle"
    /\ outcome.op = "configureGlobalAuth"
    /\ outcome.error = "Unable to replace auth placeholder in " \o temporaryHomePath
                        \o "/.gitconfig"
    /\ GitCommand(lastExec.args) = "unset"
    /\ lastExec.exitCode # 0

\* the global config file git resolves with the present overlay
GlobalConfigOfGit == GitConfigFile("--global", MergedEnv(processEnv, gitEnv))

\* removeAuth with no credential configured: the existence check exits
\* non-zero and removeAuth returns at once, without an unset, a warning, an
\* error or a change of a file
RemoveAuthAbsentContract ==
    (/\ op = "removeAuth"
     /\ pc = "removeToken.exists"
     /\ KeyAbsent(GlobalConfigOfGit, helper.tokenConfigKey))
    => /\ GitCommand(lastExec'.args) = "exists"
       /\ lastExec'.args[2] = "--global"
       /\ lastExec'.exitCode # 0
       /\ pc' = "idle"
       /\ outcome'.op = "removeAuth"
       /\ outcome'.status = "ok"
       /\ ~outcome'.warned
       /\ fs' = fs

\* C14: removeAuth called when no credential was ever configured does not
\* fail: the non-zero exit code of the existence check is read as 'key
\* absent', no unset is issued, no error is raised and the config file is
\* left unchanged.
C14_RemoveAuthWithoutCredential == [][RemoveAuthAbsentContract]_vars

\* C14 witness: removeAuth has returned right after the helper was built,
\* with the existence check as its only subprocess, and <home>/.gitconfig
\* holds other settings and no credential key
C14_Witness ==
    /\ pc = "idle"
    /\ outcome.op = "removeAuth"
    /\ outcome.status = "ok"
    /\ prevOutcome.op = "createAuthHelper"
    /\ GitCommand(lastExec.args) = "exists"
    /\ lastExec.exitCode = 1
    /\ "/home/runner/.gitconfig" \in DOMAIN fs
    /\ fs["/home/runner/.gitconfig"] = <<[key |-> "user.name", value |-> "ci"]>>

\* removeGlobalAuth where there is nothing to remove: without a HOME entry the
\* overlay stays as it is, without the temporary directory on disk (the path
\* is still '' or was deleted before) no directory and no file goes away;
\* the call returns normally
RemoveNothingContract ==
    pc = "removeGlobalAuth.rmRF" =>
        /\ "HOME" \notin DOMAIN gitEnv => gitEnv' = gitEnv
        /\ temporaryHomePath \notin dirs => (dirs' = dirs /\ fs' = fs)
        /\ pc' = "idle"
        /\ outcome'.op = "removeGlobalAuth"
        /\ outcome'.status = "ok"
        /\ outcome'.error = ""

\* C15: removing an overlay key that was never set is a no-op and no error:
\* removeGlobalAuth with no configureGlobalAuth before it (no HOME entry, no
\* temporary directory) returns without error, leaves the environment overlay
\* unchanged and deletes no directory and no file.
C15_RemoveWithoutSandboxIsNoop == [][RemoveNothingContract]_vars

\* C15 witness: removeGlobalAuth has returned on a helper that never ran
\* configureGlobalAuth; the overlay is the one initialize left and the
\* directories are the initial ones
C15_Witness ==
    /\ pc = "idle"
    /\ outcome.op = "removeGlobalAuth"
    /\ outcome.status = "ok"
    /\ prevOutcome.op = "createAuthHelper"
    /\ temporaryHomePath = ""
    /\ createdHomes = {}
    /\ DOMAIN gitEnv = {"GIT_TERMINAL_PROMPT", "GCM_INTERACTIVE", "GIT_HTTP_USER_AGENT"}
    /\ dirs = {"/home/runner", "/work/.git"}

\* the entries every overlay of an initialized command manager has; 2.18.0 is
\* the version `git version` reports when initialize succeeds
BaselineOverlay ==
    [GIT_TERMINAL_PROMPT |-> "0", GCM_INTERACTIVE |-> "Never",
     GIT_HTTP_USER_AGENT |-> "git/2.18.0 (github-actions-checkout)"]

\* the map has the entries of the baseline overlay
HasBaseline(env) ==
    \A k \in DOMAIN BaselineOverlay : k \in DOMAIN env /\ env[k] = BaselineOverlay[k]

\* the overlay of an initialized command manager has the baseline entries,
\* and so has the environment of every subprocess after the version probe; a
\* command manager whose initialize failed has no user agent
OverlayComplete ==
    /\ gitReady => HasBaseline(gitEnv)
    /\ (gitReady /\ Len(lastExec.args) > 1) => HasBaseline(lastExec.env)
    /\ gitInitError # "" =>
            (~gitReady /\ "GIT_HTTP_USER_AGENT" \notin DOMAIN gitEnv)

\* a subprocess after the version probe runs with the process environment
\* overridden by the overlay of that moment
SubprocessEnvIsOverlaid ==
    (lastExec' # lastExec /\ Len(lastExec'.args) > 1)
    => /\ DOMAIN lastExec'.env = DOMAIN processEnv \cup DOMAIN gitEnv'
       /\ \A k \in DOMAIN gitEnv' : lastExec'.env[k] = gitEnv'[k]
       /\ \A k \in DOMAIN processEnv \ DOMAIN gitEnv' : lastExec'.env[k] = processEnv[k]

\* C16: after a successful initialize every later subprocess, after any
\* sequence of configureAuth, configureGlobalAuth, removeAuth and
\* removeGlobalAuth, runs with the inherited process environment overridden by
\* the overlay, and the overlay always has the terminal-prompt entry, the
\* credential-manager entry and the user agent with the detected version;
\* when initialize fails no user agent is installed.
C16_OverlayOnEverySubprocess == []OverlayComplete /\ [][SubprocessEnvIsOverlaid]_vars

\* C16 witness: the insteadOf write of a successful configureGlobalAuth ran
\* with HOME of the overlay, RUNNER_TEMP of the process and the user agent
C16_Witness ==
    /\ pc = "idle"
    /\ outcome.op = "configureGlobalAuth"
    /\ outcome.status = "ok"
    /\ lastExec.env["HOME"] = temporaryHomePath
    /\ lastExec.env["RUNNER_TEMP"] = "/runner/_temp"
    /\ lastExec.env["GIT_HTTP_USER_AGENT"] = "git/2.18.0 (github-actions-checkout)"
    /\ lastExec.env["GIT_TERMINAL_PROMPT"] = "0"

\* the process environment defines no scratch-space root
NoRunnerTemp == "RUNNER_TEMP" \notin DOMAIN processEnv \/ processEnv["RUNNER_TEMP"] = ""

\* configureGlobalAuth without RUNNER_TEMP: its first step rejects the call
\* and changes no directory, no file, no overlay entry, and runs no subprocess
RunnerTempContract ==
    (op = "configureGlobalAuth" /\ NoRunnerTemp)
    => /\ pc = "configureGlobalAuth.mkdir"
       /\ pc' = "idle"
       /\ outcome'.op = "configureGlobalAuth"
       /\ outcome'.status = "error"
       /\ outcome'.error = "RUNNER_TEMP is not defined"
       /\ dirs' = dirs
       /\ fs' = fs
       /\ gitEnv' = gitEnv
       /\ lastExec' = lastExec
       /\ temporaryHomePath' = temporaryHomePath
       /\ createdHomes' = createdHomes

\* C17: configureGlobalAuth requires RUNNER_TEMP to be defined: when it is
\* absent the call fails before any temporary directory is created, before
\* any file is copied or written, before the HOME overlay is changed and
\* before any subprocess is issued.
C17_RunnerTempRequired == [][RunnerTempContract]_vars

\* C17 witness: configureGlobalAuth has been rejected in a process without
\* RUNNER_TEMP, and there is no temporary home
C17_Witness ==
    /\ pc = "idle"
    /\ outcome.op = "configureGlobalAuth"
    /\ outcome.error = "RUNNER_TEMP is not defined"
    /\ "RUNNER_TEMP" \notin DOMAIN processEnv
    /\ temporaryHomePath = ""
    /\ "HOME" \notin DOMAIN gitEnv
    /\ dirs = {"/home/runner", "/work/.git"}

\* getSource has its grant response and goes on with the delegated token
GetSourceHoldsToken ==
    \/ op = "getSource" /\ pc \notin {"createCommandManager", "grant"}
    \/ pc = "idle" /\ outcome.op = "getSource" /\ helper.made

\* C18: in every getSource session the delegated token is marked as a secret
\* before any further use: it is a marked value when the credential value is
\* constructed, at every subprocess of configureAuth and at every write of a
\* config file; and the base64 credential is a marked value before any config
\* operation.
C18_TokenMarkedBeforeUse ==
    GetSourceHoldsToken =>
        /\ issuedTokens \subseteq secrets
        /\ settings.type = "string" => settings.s \in secrets
        /\ helper.made =>
                AuthHelpers[processEnv][settings].basicCredential \in secrets
        /\ pc # "createAuthHelper" => helper.made
        /\ (Len(lastExec.args) > 1 \/ placeholderFile # "" \/ patchedFile # "")
            => (helper.made /\ helper.basicCredential \in secrets)

\* C18 witness: getSource has configured the credential of the token ghs_A;
\* the token and its base64 credential are the marked values
C18_Witness ==
    /\ pc = "idle"
    /\ outcome.op = "getSource"
    /\ outcome.status = "ok"
    /\ outcome.patchedFile # ""
    /\ settings = Str("ghs_A")
    /\ secrets = {"ghs_A", "eC1hY2Nlc3MtdG9rZW46Z2hzX0E="}

\* C19: in every configureAuth and configureGlobalAuth call, whatever calls
\* were made before on the same helper and command manager (configureAuth
\* while the HOME overlay of configureGlobalAuth is installed included), the
\* file the replace step reads and patches is the file into which the git
\* subprocess wrote the placeholder.
C19_ReplaceReadsWrittenFile ==
    pc = "configureToken.replace" =>
        /\ placeholderFile # ""
        /\ DefaultedConfigPath(configPath, globalConfig) = placeholderFile
        /\ lastExec.path = placeholderFile

\* the lines of the trimmed output that start with 'ref:' and end with 'HEAD'
SymrefLines(stdout) ==
    LET lines == Split(Trim(stdout), "\n") IN
    {i \in 1..Len(lines) :
        /\ Slice(Trim(lines[i]), 1, 4) = "ref:"
        /\ Slice(Trim(lines[i]), Len(Trim(lines[i])) - 3, Len(Trim(lines[i]))) = "HEAD"}

\* the trimmed text between the prefix 'ref:' and the marker 'HEAD' of the
\* first such line
SymrefBranch(stdout) ==
    LET lines == Split(Trim(stdout), "\n")
        line == Trim(lines[Min(SymrefLines(stdout))])
    IN Trim(Slice(line, 5, Len(line) - 4))

\* what the claim asks of every output: the branch, or "" where it asks for
\* the 'Unexpected output' error; computed once
ExpectedBranches ==
    [stdout \in LsRemoteOutputs |->
        IF SymrefLines(stdout) = {} THEN [found |-> FALSE, value |-> ""]
        ELSE [found |-> TRUE, value |-> SymrefBranch(stdout)]]

\* C20: getDefaultBranch runs `ls-remote --symref` under the retry executor
\* and, for every output of the subprocess, returns the trimmed text after
\* the prefix 'ref:' and before the trailing marker 'HEAD' of the first line
\* that has both; when no line starts with 'ref:' and ends with 'HEAD' it
\* fails with the 'Unexpected output' error and returns no value.
C20_DefaultBranchParsing ==
    (pc = "idle" /\ outcome.op = "getDefaultBranch")
    => IF output.set
       THEN IF ExpectedBranches[output.stdout].found
            THEN /\ outcome.status = "ok"
                 /\ outcome.value = ExpectedBranches[output.stdout].value
            ELSE /\ outcome.status = "error"
                 /\ outcome.error = "Unexpected output when retrieving default branch"
       ELSE /\ outcome.status = "error"
            /\ attempt = 3
            /\ lastExec.args[1] = "ls-remote"
            /\ lastExec.exitCode # 0

\* the credential keys the constructor derives in this environment, one for
\* every value settings.linkedToken can have
KeysOfEnvironment ==
    {AuthHelpers[processEnv][t].tokenConfigKey : t \in LinkedTokens}

\* cleanup has returned
CleanupDone == pc = "idle" /\ outcome.op = "cleanup"

\* cleanup has returned after a getSource session that configured the
\* credential, having built its command manager and its auth helper, and none
\* of its subprocesses failed
CleanupAfterGetSource ==
    /\ CleanupDone
    /\ helper.made
    /\ ~outcome.warned
    /\ prevOutcome.op = "getSource"
    /\ prevOutcome.status = "ok"
    /\ prevOutcome.patchedFile # ""

\* C21: a cleanup() in a later process builds a fresh command manager and
\* an auth helper without settings; the credential key it derives is the key a
\* getSource session derives in the same environment, whatever the token; when
\* it follows a getSource that configured the credential and its subprocesses
\* do not fail, the key is absent afterwards from the file getSource wrote to;
\* and cleanup returns without an error in every case, a failed version probe
\* and a failed unset included.
C21_CrossSessionTeardown ==
    /\ CleanupDone => (outcome.status = "ok" /\ outcome.error = "")
    /\ (op = "cleanup" \/ CleanupDone) =>
            /\ settings = Undefined
            /\ helper.made => KeysOfEnvironment = {helper.tokenConfigKey}
    /\ CleanupAfterGetSource =>
            \A key \in KeysOfEnvironment :
                /\ KeyAbsent(prevOutcome.patchedFile, key)
                /\ KeyAbsent(prevOutcome.placeholderFile, key)

\* C21 witness: getSource configured the credential in <home>/.gitconfig,
\* then cleanup, with a helper built without a token, has unset the key with
\* exit code 0 and the file has no entry of the key
C21_Witness ==
    /\ CleanupAfterGetSource
    /\ prevOutcome.patchedFile = "/home/runner/.gitconfig"
    /\ GitCommand(lastExec.args) = "unset"
    /\ lastExec.args[4] = helper.tokenConfigKey
    /\ lastExec.exitCode = 0
    /\ ~ConfigHasKey(fs["/home/runner/.gitconfig"], helper.tokenConfigKey)

\* the file holds exactly one value of the credential key, the real credential
\* value of the helper, and no placeholder
HoldsOneCredential(path) ==
    /\ path \in DOMAIN fs
    /\ ConfigValues(fs[path], helper.tokenConfigKey) = <<helper.tokenConfigValue>>
    /\ ~HoldsText(fs, path, helper.tokenPlaceholderConfigValue)

\* C22: after configureAuth has succeeded, for the first time or again, with
\* the same or another delegated token, with or without a stale credential in
\* the file before, the config file it targets (the file git wrote the
\* placeholder to, which is the file the replace step patched) holds exactly
\* one value of the credential key, that value is the real credential value
\* of the latest helper, and the file contains no placeholder.
C22_ConfigureAuthIdempotent ==
    ConfigureAuthDone =>
        /\ HoldsOneCredential(outcome.placeholderFile)
        /\ HoldsOneCredential(outcome.patchedFile)

====
